---- MODULE Spec2Model ----
(***************************************************************************)
(* The WebDAV method handler layer of tank (package dav, webdav.go) and    *)
(* its lock-coordination protocol: stripPrefix, lock, confirmLocks and the *)
(* mutating handlers (PUT, DELETE, MKCOL, PROPPATCH, COPY, MOVE, LOCK,     *)
(* UNLOCK), run as concurrent requests against one lock store and one      *)
(* file system.  The lock store, the file system, the If-header parser and *)
(* the copy/move engine are collaborators of the handler layer; they are   *)
(* modelled at their interface.                                            *)
(***************************************************************************)
EXTENDS Integers, Sequences, FiniteSets, TLC

(***************************************************************************)
(* Bounds of the model.                                                    *)
(***************************************************************************)
\* The number of lock tokens that can be in use at the same time.
MaxToken == 6
\* The number of requests the server accepts in one run.
MaxRequests == 3

\* The requests that run concurrently (one logical task per HTTP request).
Reqs == {"r1", "r2"}

(***************************************************************************)
(* Paths are strings, modelled as sequences of characters.                 *)
(***************************************************************************)
Root == <<"/">>
Empty == <<>>
PathA == <<"/", "a">>
PathAX == <<"/", "a", "/", "x">>
PathB == <<"/", "b">>
PathBX == <<"/", "b", "/", "x">>

\* Handler.Prefix of the server under study.
Prefix == <<"/", "d">>
\* The values of Handler.Prefix: none, and /d.
Prefixes == {Empty, Prefix}

\* The resources of the file system below the root.
FsPaths == {PathA, PathAX, PathB, PathBX}

\* URL paths of incoming requests: /d, /d/a, /d/a/x, /d/b and /e/a.
UrlRoot == Prefix
UrlA == Prefix \o PathA
UrlAX == Prefix \o PathAX
UrlB == Prefix \o PathB
UrlOther == <<"/", "e">> \o PathA
UrlPaths == {UrlRoot, UrlA, UrlAX, UrlB, UrlOther}
\* URL paths of COPY and MOVE requests and of their Destination header.
CopyMoveUrls == {UrlA, UrlAX, UrlB, UrlOther}
DestUrls == {UrlRoot, UrlA, UrlB, UrlOther}

\* strings.HasPrefix
HasPrefix(s, pre) ==
  /\ Len(pre) <= Len(s)
  /\ SubSeq(s, 1, Len(pre)) = pre

\* strings.TrimPrefix
TrimPrefix(s, pre) ==
  IF HasPrefix(s, pre) THEN SubSeq(s, Len(pre) + 1, Len(s)) ELSE s

(***************************************************************************)
(* HTTP status codes and errors used by the handlers.                      *)
(***************************************************************************)
StatusLocked == 423

stripPrefixOf(prefix, p) ==
  IF prefix = Empty
    THEN [path |-> p, status |-> 200, err |-> "nil"]
    ELSE LET r == TrimPrefix(p, prefix) IN
         IF Len(r) < Len(p)
           THEN [path |-> r, status |-> 200, err |-> "nil"]
           ELSE [path |-> p, status |-> 404, err |-> "errPrefixMismatch"]

infiniteDepth == -1
invalidDepth == -2

DepthHeaders == {"", "0", "1", "infinity", "bad"}

parseDepth(s) ==
  CASE s = "0" -> 0
    [] s = "1" -> 1
    [] s = "infinity" -> infiniteDepth
    [] OTHER -> invalidDepth

(***************************************************************************)
(* The file system collaborator (interface FileSystem): a tree below the   *)
(* root directory.  A resource is absent, a collection ("dir"), an empty   *)
(* regular file ("empty") or a regular file with content ("data").         *)
(***************************************************************************)
Kinds == {"absent", "dir", "empty", "data"}

\* The name a collaborator resolves: "" and "/" are the root.
slashClean(p) ==
  IF p = Empty THEN Root
  ELSE IF p[1] # "/" THEN Root \o p
  ELSE p

LastSlash(p) ==
  LET S == {i \in 1..Len(p) : p[i] = "/"} IN
  CHOOSE i \in S : \A j \in S : j <= i

Parent(p) ==
  IF LastSlash(p) = 1 THEN Root ELSE SubSeq(p, 1, LastSlash(p) - 1)

\* q lies strictly below p.
IsUnder(q, p) ==
  IF p = Root THEN q # Root ELSE HasPrefix(q, p \o <<"/">>)

KindOf(f, p) ==
  IF p = Root THEN "dir"
  ELSE IF p \in FsPaths THEN f[p]
  ELSE "absent"

\* FileSystem.Stat: fails with a not-exist error on an absent resource.
StatErr(f, name) ==
  IF KindOf(f, slashClean(name)) = "absent" THEN "ErrNotExist" ELSE "nil"

\* FileSystem.OpenFile(name, O_RDWR|O_CREATE|O_TRUNC) followed by writing
\* `content` and Close.
OpenFileWrite(f, name, content) ==
  LET p == slashClean(name) IN
  IF /\ p \in FsPaths
     /\ KindOf(f, p) # "dir"
     /\ KindOf(f, Parent(p)) = "dir"
    THEN [fs |-> [f EXCEPT ![p] = content], err |-> "nil"]
    ELSE [fs |-> f, err |-> "ErrOpen"]

\* FileSystem.RemoveAll: removes the resource and everything below it; the
\* root itself cannot be removed.
RemoveAll(f, name) ==
  LET p == slashClean(name) IN
  IF p = Root
    THEN [fs |-> f, err |-> "ErrInvalid"]
    ELSE [fs |-> [q \in FsPaths |->
                    IF q = p \/ IsUnder(q, p) THEN "absent" ELSE f[q]],
          err |-> "nil"]

\* FileSystem.Mkdir.
Mkdir(f, name) ==
  LET p == slashClean(name) IN
  IF KindOf(f, p) # "absent" THEN [fs |-> f, err |-> "ErrExist"]
  ELSE IF KindOf(f, Parent(p)) = "absent" THEN [fs |-> f, err |-> "ErrNotExist"]
  ELSE IF KindOf(f, Parent(p)) # "dir" \/ p \notin FsPaths
    THEN [fs |-> f, err |-> "ErrInvalid"]
  ELSE [fs |-> [f EXCEPT ![p] = "dir"], err |-> "nil"]

\* The path q of the tree at `to` seen in the tree at `from`.
Rebase(q, to, from) == from \o SubSeq(q, Len(to) + 1, Len(q))

\* FileSystem.Rename: an atomic move of the tree at src to dst.
Rename(f, src, dst) ==
  IF \/ KindOf(f, src) = "absent"
     \/ src = Root \/ dst = Root
     \/ KindOf(f, dst) # "absent"
     \/ KindOf(f, Parent(dst)) = "absent"
     \/ IsUnder(dst, src)
    THEN [fs |-> f,
          err |-> IF KindOf(f, src) # "absent" /\ KindOf(f, Parent(dst)) = "absent"
                    THEN "ErrNotExist" ELSE "ErrInvalid"]
  ELSE IF KindOf(f, Parent(dst)) # "dir"
    THEN [fs |-> f, err |-> "ErrInvalid"]
  ELSE [fs |-> [q \in FsPaths |->
                  IF q = dst \/ IsUnder(q, dst)
                    THEN KindOf(f, Rebase(q, dst, src))
                  ELSE IF q = src \/ IsUnder(q, src) THEN "absent"
                  ELSE f[q]],
        err |-> "nil"]

(***************************************************************************)
(* The copy/move engine (copyFiles, moveFiles).                            *)
(***************************************************************************)
\* copyFiles(fs, src, dst, overwrite, depth, 0)
copyFiles(f, src, dst, overwrite, depth) ==
  IF KindOf(f, src) = "absent"
    THEN [fs |-> f, status |-> 404, err |-> "ErrNotExist"]
  ELSE IF KindOf(f, dst) # "absent" /\ ~overwrite
    THEN [fs |-> f, status |-> 412, err |-> "ErrExist"]
  ELSE
    LET existed == KindOf(f, dst) # "absent"
        g == IF existed THEN RemoveAll(f, dst).fs ELSE f
        k == KindOf(g, src)
    IN
    IF k = "absent"
      THEN [fs |-> g, status |-> 404, err |-> "ErrNotExist"]
    ELSE IF KindOf(g, Parent(dst)) # "dir"
      THEN [fs |-> g, status |-> 409, err |-> "ErrNotExist"]
    ELSE
      [fs |-> [q \in FsPaths |->
                 IF q = dst THEN k
                 ELSE IF IsUnder(q, dst) /\ k = "dir" /\ depth # 0
                   THEN KindOf(g, Rebase(q, dst, src))
                 ELSE g[q]],
       status |-> IF existed THEN 204 ELSE 201,
       err |-> "nil"]

\* moveFiles(fs, src, dst, overwrite)
moveFiles(f, src, dst, overwrite) ==
  IF KindOf(f, dst) # "absent" /\ ~overwrite
    THEN [fs |-> f, status |-> 412, err |-> "ErrExist"]
  ELSE
    LET existed == KindOf(f, dst) # "absent"
        g == IF existed THEN RemoveAll(f, dst).fs ELSE f
        rn == Rename(g, src, dst)
    IN
    IF rn.err = "nil"
      THEN [fs |-> rn.fs, status |-> IF existed THEN 204 ELSE 201, err |-> "nil"]
    ELSE IF rn.err = "ErrNotExist"
      THEN [fs |-> g, status |-> 409, err |-> rn.err]
    ELSE IF KindOf(g, src) = "absent"
      THEN [fs |-> g, status |-> 404, err |-> "ErrNotExist"]
    ELSE [fs |-> g, status |-> 403, err |-> rn.err]

(***************************************************************************)
(* The lock store collaborator (interface LockSystem).  A lock is a record *)
(* with its token, the LockDetails the handler passed (Root, ZeroDepth,    *)
(* Duration as "infinite" or "finite") and whether a Confirm holds it.     *)
(***************************************************************************)
\* Tokens are strings; the store returns one of TokenNames that is not in use.
NoToken == ""
TokenNames == <<"t1", "t2", "t3", "t4", "t5", "t6", "t7", "t8">>
Tokens == {TokenNames[i] : i \in 1..MaxToken}
\* A token no Create ever returned.
UnknownToken == "other"

Durations == {"infinite", "finite"}

\* The lock with token t.
LockOf(ls, t) == CHOOSE l \in ls : l.token = t

HasToken(ls, t) == \E l \in ls : l.token = t

\* Lock l protects the resource `name`: its root, and for a lock that is not
\* zero-depth every resource below its root.
Covers(l, name) ==
  LET root == slashClean(l.root) IN
  \/ root = name
  \/ ~l.zeroDepth /\ IsUnder(name, root)

\* The conflict rule of Create: the root is protected by an existing lock,
\* or the new lock would protect the root of an existing lock.
Conflicts(ls, ld) ==
  LET root == slashClean(ld.root) IN
  \/ \E l \in ls : Covers(l, root)
  \/ ~ld.zeroDepth /\ \E l \in ls : IsUnder(slashClean(l.root), root)

\* LockSystem.Create(now, details) with the fresh token g; `infra` is an
\* infrastructure failure of the store, possible when there is no conflict.
Create(ls, g, ld, infra) ==
  IF Conflicts(ls, ld)
    THEN [locks |-> ls, token |-> NoToken, err |-> "ErrLocked"]
  ELSE IF infra
    THEN [locks |-> ls, token |-> NoToken, err |-> "ErrInfra"]
  ELSE [locks |-> ls \cup {[token |-> g, root |-> ld.root,
                            zeroDepth |-> ld.zeroDepth,
                            duration |-> ld.duration, held |-> FALSE]},
        token |-> g, err |-> "nil"]

\* LockSystem.Unlock(now, token)
Unlock(ls, t) ==
  IF ~HasToken(ls, t) THEN [locks |-> ls, err |-> "ErrNoSuchLock"]
  ELSE IF LockOf(ls, t).held THEN [locks |-> ls, err |-> "ErrLocked"]
  ELSE [locks |-> ls \ {LockOf(ls, t)}, err |-> "nil"]

\* LockSystem.Refresh(now, token, duration): the lock gets the new duration.
Refresh(ls, t, duration, infra) ==
  IF ~HasToken(ls, t) THEN [locks |-> ls, err |-> "ErrNoSuchLock"]
  ELSE IF LockOf(ls, t).held THEN [locks |-> ls, err |-> "ErrLocked"]
  ELSE IF infra THEN [locks |-> ls, err |-> "ErrInfra"]
  ELSE [locks |-> {IF l.token = t THEN [l EXCEPT !.duration = duration] ELSE l : l \in ls},
        err |-> "nil"]

\* The lock a condition list cites for `name`: a lock that is not held,
\* whose token is among the conditions and that protects `name`.
Lookup(ls, name, toks) ==
  {l \in ls : l.token \in toks /\ ~l.held /\ Covers(l, slashClean(name))}

\* LockSystem.Confirm(now, name0, name1, conditions...): on success the
\* cited locks are held until release; `tokens` are the locks held.
Confirm(ls, name0, name1, toks, infra) ==
  LET n0 == IF name0 = Empty THEN {} ELSE Lookup(ls, name0, toks)
      n1 == IF name1 = Empty THEN {} ELSE Lookup(ls, name1, toks)
      pick0 == IF n0 = {} THEN {} ELSE {CHOOSE l \in n0 : TRUE}
      pick1 == IF n1 = {} THEN {} ELSE {CHOOSE l \in n1 : TRUE}
      hold == pick0 \cup pick1
  IN
  IF (name0 # Empty /\ n0 = {}) \/ (name1 # Empty /\ n1 = {})
    THEN [locks |-> ls, tokens |-> {}, err |-> "ErrConfirmationFailed"]
  ELSE IF infra
    THEN [locks |-> ls, tokens |-> {}, err |-> "ErrInfra"]
  ELSE [locks |-> {IF l \in hold THEN [l EXCEPT !.held = TRUE] ELSE l : l \in ls},
        tokens |-> {l.token : l \in hold}, err |-> "nil"]

\* The release function Confirm returned: the holds are relinquished.
Unhold(ls, toks) ==
  {IF l.token \in toks THEN [l EXCEPT !.held = FALSE] ELSE l : l \in ls}

(***************************************************************************)
(* Request headers.                                                        *)
(***************************************************************************)
\* The If header as parseIfHeader returns it: absent (""), malformed
\* (ok = false) or a disjunction of lists, each with an optional resource
\* tag and the tokens of its conditions.
IfAbsent == [kind |-> "absent", lists |-> <<>>]
IfMalformed == [kind |-> "malformed", lists |-> <<>>]
NoTag == [present |-> FALSE, host |-> "", path |-> Empty]
List(tag, t) == [resourceTag |-> tag, tokens |-> {t}]
IfLists(ls) == [kind |-> "lists", lists |-> ls]

\* The resource tags of the model: the URL of /a on this host, a URL on
\* another host and a URL outside the prefix.
Tags ==
  { NoTag,
    [present |-> TRUE, host |-> "same", path |-> UrlA],
    [present |-> TRUE, host |-> "other", path |-> UrlA],
    [present |-> TRUE, host |-> "same", path |-> UrlOther] }

\* The If headers of a request: none, those with one untagged list, those
\* with one untagged list or the same list twice, or those with up to two
\* lists, the first tagged or not.  The token NoToken stands for a condition
\* without a token (an ETag): "pair" has a list of such a condition alone
\* and lists of a token and such a condition.
IfHeaders(kind, toks) ==
  LET Ls == {List(g, t) : g \in Tags, t \in toks}
      Us == {List(NoTag, t) : t \in toks}
  IN
  CASE kind = "none" -> {IfAbsent}
    [] kind = "simple" ->
         {IfAbsent, IfMalformed} \cup {IfLists(<<List(NoTag, t)>>) : t \in toks}
    [] kind = "pair" ->
         {IfAbsent, IfMalformed} \cup {IfLists(<<l>>) : l \in Us}
           \cup {IfLists(<<l, l>>) : l \in Us}
           \cup {IfLists(<<[resourceTag |-> NoTag, tokens |-> c]>>) :
                   c \in {{NoToken}} \cup {{t, NoToken} : t \in toks}}
    [] OTHER ->
         {IfAbsent, IfMalformed} \cup {IfLists(<<l>>) : l \in Ls}
           \cup {IfLists(<<l1, l2>>) : l1 \in Ls, l2 \in Us}

\* The Destination header: absent, not a URL, or a URL with host and path.
Destinations ==
  { [kind |-> "absent", host |-> "", path |-> Empty],
    [kind |-> "malformed", host |-> "", path |-> Empty],
    [kind |-> "url", host |-> "other", path |-> UrlB] }
  \cup {[kind |-> "url", host |-> "same", path |-> u] : u \in DestUrls}

OverwriteHeaders == {"", "T", "F"}

\* The Timeout header and parseTimeout.
TimeoutHeaders == {"", "Second-1", "bad"}
parseTimeout(s) ==
  CASE s = "" -> [duration |-> "infinite", err |-> "nil"]
    [] s = "Second-1" -> [duration |-> "finite", err |-> "nil"]
    [] OTHER -> [duration |-> "infinite", err |-> "errInvalidTimeout"]

\* The Lock-Token header, a sequence of characters with the token as one
\* element: absent, <>, a token without one or both brackets, and <t>.
LockTokenHeaders(toks) ==
  {<<>>, <<"<", ">">>, <<UnknownToken>>, <<"<", UnknownToken>>, <<UnknownToken, ">">>}
    \cup {<<"<", t, ">">> : t \in toks}

(***************************************************************************)
(* State.                                                                  *)
(***************************************************************************)
VARIABLES
  handler, \* the Handler: its field Prefix
  fs,      \* the file system: FsPaths -> Kinds
  props,   \* the resources that carry the dead property
  locks,   \* the lock store
  req,     \* the requests: Reqs -> request record
  served   \* the number of requests accepted so far

vars == <<handler, fs, props, locks, req, served>>

\* Handler.stripPrefix
stripPrefix(p) == stripPrefixOf(handler.Prefix, p)

\* A request: its position in the handler, its inputs, the handler's locals
\* and the response: `wrote` are the status lines written to the
\* ResponseWriter, `body` the parts of the body ("xml", "file" by a handler,
\* "text" the status text of the dispatcher), `lockTokenOut` the Lock-Token
\* response header, `lsrcs` the first argument of every Confirm call.
IdleReq ==
  [ pc |-> "idle", n |-> 0, method |-> "", url |-> Empty, src |-> Empty, dst |-> Empty,
    ifh |-> IfAbsent, idx |-> 1, lsrcs |-> <<>>,
    wrote |-> <<>>, body |-> <<>>, lockTokenOut |-> NoToken, allow |-> "",
    srcToken |-> NoToken, dstToken |-> NoToken, holds |-> {},
    confirms |-> <<>>, depth |-> "", overwrite |-> "", flag |-> FALSE,
    zeroDepth |-> FALSE, duration |-> "infinite", token |-> NoToken,
    lockToken |-> <<>>, lockInfo |-> "", created |-> FALSE, status |-> 0, err |-> "nil" ]

\* The file systems the server starts on.
InitTrees ==
  LET none == [p \in FsPaths |-> "absent"] IN
  { none,
    [none EXCEPT ![PathA] = "dir", ![PathAX] = "data"],
    [none EXCEPT ![PathA] = "data", ![PathB] = "empty"] }

\* The state after construction, of a Handler with one of the prefixes Ps.
InitWith(Ps) ==
  /\ handler \in {[Prefix |-> x] : x \in Ps}
  /\ fs \in InitTrees
  /\ props = {}
  /\ locks = {}
  /\ req = [r \in Reqs |-> IdleReq]
  /\ served = 0

Init == InitWith({Prefix})

\* The server accepts request r.
Accept(r) ==
  /\ req[r].pc \in {"idle", "done"}
  /\ served < MaxRequests
  /\ served' = served + 1

\* ResponseWriter.WriteHeader(status): a status line.
WriteHeader(q, status) == [q EXCEPT !.wrote = Append(@, status)]

\* ResponseWriter.Write: a part of the body, after the status line 200 when
\* no status line was written before.
Write(q, part) ==
  [q EXCEPT !.wrote = IF @ = <<>> THEN <<200>> ELSE @,
            !.body = Append(@, part)]

\* ServeHTTP after the handler returned (q.status, q.err): the status line
\* and, unless the status is 204, the status text.
Done(q) ==
  LET w == IF q.status = 0 THEN q
           ELSE IF q.status = 204 THEN WriteHeader(q, q.status)
           ELSE Write(WriteHeader(q, q.status), "text")
  IN [w EXCEPT !.pc = "done"]

\* The handler returned (status, err).
Return(q, status, err) == Done([q EXCEPT !.status = status, !.err = err])

\* The Lock-Token header is not a Coded-URL.
BadLockToken(t) == Len(t) < 2 \/ t[1] # "<" \/ t[Len(t)] # ">"

\* t[1 : len(t)-1], as a token.
StripBrackets(t) ==
  LET inner == SubSeq(t, 2, Len(t) - 1) IN
  IF Len(inner) = 1 THEN inner[1] ELSE NoToken

\* The tokens a request record refers to.
TokensOf(q) ==
  ({q.srcToken, q.dstToken, q.token, StripBrackets(q.lockToken)} \cup q.holds) \ {NoToken}

\* A request whose handler is running.
InFlight(q) == q.pc \notin {"idle", "done"}

\* The token the store hands out next: one that names no lock and that no
\* request refers to.
InUse == {l.token : l \in locks} \cup UNION {TokensOf(req[r]) : r \in Reqs}
HasFresh == Tokens \ InUse # {}
Fresh == TokenNames[CHOOSE i \in 1..MaxToken :
                      /\ TokenNames[i] \notin InUse
                      /\ \A j \in 1..(i - 1) : TokenNames[j] \in InUse]

\* The tokens a client can cite: the tokens of locks that a LOCK response
\* carried, and one that names no lock.  The token of a temporary lock and
\* the token of a LOCK request that has not answered yet are local to their
\* request.
Private == UNION {{req[r].srcToken, req[r].dstToken, req[r].token} : r \in {x \in Reqs : InFlight(req[x])}}
Citable == ({l.token : l \in locks} \ Private) \cup {UnknownToken}
\* The tokens the Lock-Token header of the last UNLOCK requests carried.
Cited == {StripBrackets(req[r].lockToken) : r \in Reqs} \ {NoToken}

(***************************************************************************)
(* Handler.lock: a temporary zero-depth lock of infinite duration.         *)
(***************************************************************************)
TempLock(root) == [root |-> root, duration |-> "infinite", zeroDepth |-> TRUE]

\* A lock that is granted whatever the store holds.
lockGranted(ls, g, root, infra) ==
  [ locks |-> ls \cup {[token |-> g, root |-> root, zeroDepth |-> TRUE,
                        duration |-> "infinite", held |-> FALSE]},
    token |-> g, status |-> 0, err |-> "nil" ]

\* A lock that reports every failure of Create as a conflict.
lockAlwaysLocked(ls, g, root, infra) ==
  LET c == Create(ls, g, TempLock(root), infra) IN
  IF c.err # "nil"
    THEN [locks |-> ls, token |-> NoToken, status |-> StatusLocked, err |-> "ErrLocked"]
    ELSE [locks |-> c.locks, token |-> c.token, status |-> 0, err |-> "nil"]

lock(ls, g, root, infra) ==
  LET c == Create(ls, g, TempLock(root), infra) IN
  IF c.err # "nil"
    THEN IF c.err = "ErrLocked"
           THEN [locks |-> ls, token |-> NoToken, status |-> StatusLocked, err |-> c.err]
           ELSE [locks |-> ls, token |-> NoToken, status |-> 500, err |-> c.err]
    ELSE [locks |-> c.locks, token |-> c.token, status |-> 0, err |-> "nil"]

\* Create can run: the store has a token to hand out, or it refuses.
CanRun(ld) == HasFresh \/ Conflicts(locks, ld)
FreshOr == IF HasFresh THEN Fresh ELSE NoToken

(***************************************************************************)
(* confirmLocks(r, src, dst).                                              *)
(***************************************************************************)
\* confirmLocks called with the source of every request, COPY included.
ArgSrcOfCopy(q) == q.src

\* The arguments of confirmLocks: COPY passes "" for src.
ArgSrc(q) == IF q.method = "COPY" THEN Empty ELSE q.src
ArgDst(q) == q.dst

\* A loop that gives up at the first list that is not confirmed.
ContinueGivesUp(q, what) ==
  Return([q EXCEPT !.confirms = Append(q.confirms, what)], 412, "ErrLocked")

\* An iteration of the loop over the lists ended with `continue`: the next
\* list, or 412 after the last.
Continue(q, what) ==
  LET p == [q EXCEPT !.confirms = Append(q.confirms, what)] IN
  IF q.idx >= Len(q.ifh.lists)
    THEN Return(p, 412, "ErrLocked")
    ELSE [p EXCEPT !.pc = "confirm", !.idx = q.idx + 1]

\* A loop that passes src to Confirm whatever the resource tag of the list.
lsrcIgnoresTag(q, tag) == ArgSrc(q)

\* lsrc, the first argument of Confirm for a list with resource tag `tag`
\* whose host is the request's and whose path has the prefix.
lsrcOf(q, tag) == IF tag.present THEN stripPrefix(tag.path).path ELSE ArgSrc(q)

\* confirmLocks of request q up to and including its next call of the lock
\* store: without an If header the first temporary lock, with an If header
\* the Confirm of list q.idx.
ConfirmStep(r, q) ==
  IF q.ifh.kind = "absent"
    THEN
      IF ArgSrc(q) # Empty
        THEN /\ CanRun(TempLock(ArgSrc(q)))
             /\ \E infra \in BOOLEAN :
                  LET res == lock(locks, FreshOr, ArgSrc(q), infra) IN
                  /\ locks' = res.locks
                  /\ req' = [req EXCEPT ![r] =
                       IF res.err # "nil" THEN Return(q, res.status, res.err)
                       ELSE [q EXCEPT !.srcToken = res.token,
                                      !.pc = IF ArgDst(q) # Empty THEN "lockDst" ELSE "fs"]]
      ELSE IF ArgDst(q) # Empty
        THEN /\ CanRun(TempLock(ArgDst(q)))
             /\ \E infra \in BOOLEAN :
                  LET res == lock(locks, FreshOr, ArgDst(q), infra) IN
                  /\ locks' = res.locks
                  /\ req' = [req EXCEPT ![r] =
                       IF res.err # "nil" THEN Return(q, res.status, res.err)
                       ELSE [q EXCEPT !.dstToken = res.token, !.pc = "fs"]]
      ELSE /\ req' = [req EXCEPT ![r] = [q EXCEPT !.pc = "fs"]]
           /\ locks' = locks
  ELSE IF q.ifh.kind = "malformed"
    THEN /\ req' = [req EXCEPT ![r] = Return(q, 400, "errInvalidIfHeader")]
         /\ locks' = locks
  ELSE
    LET l == q.ifh.lists[q.idx]
        tag == l.resourceTag
        sp == stripPrefix(tag.path)
    IN
    IF tag.present /\ tag.host # "same"
      THEN /\ req' = [req EXCEPT ![r] = Continue(q, "skipped")]
           /\ locks' = locks
    ELSE IF tag.present /\ sp.err # "nil"
      THEN /\ req' = [req EXCEPT ![r] = Return(q, sp.status, sp.err)]
           /\ locks' = locks
    ELSE
      \E infra \in BOOLEAN :
        LET lsrc == lsrcOf(q, tag)
            c == Confirm(locks, lsrc, ArgDst(q), l.tokens, infra)
            p == [q EXCEPT !.lsrcs = Append(@, lsrc)]
        IN
        /\ locks' = c.locks
        /\ req' = [req EXCEPT ![r] =
             IF c.err = "ErrConfirmationFailed" THEN Continue(p, "failed")
             ELSE IF c.err # "nil"
               THEN Return([p EXCEPT !.confirms = Append(q.confirms, "error")],
                           500, c.err)
             ELSE [p EXCEPT !.confirms = Append(q.confirms, "ok"),
                            !.holds = c.tokens, !.pc = "fs"]]

\* The loop of confirmLocks goes on with the next list of the If header.
ConfirmNext(r) ==
  /\ req[r].pc = "confirm"
  /\ ConfirmStep(r, req[r])
  /\ UNCHANGED <<handler, fs, props, served>>

\* A confirmLocks that waits until the lock on dst can be created.
LockDstWaits(r) ==
  LET q == req[r] IN
  /\ q.pc = "lockDst"
  /\ HasFresh /\ ~Conflicts(locks, TempLock(ArgDst(q)))
  /\ \E infra \in BOOLEAN :
       LET res == lock(locks, FreshOr, ArgDst(q), infra) IN
       /\ locks' = res.locks
       /\ req' = [req EXCEPT ![r] =
            IF res.err # "nil"
              THEN IF q.srcToken # NoToken
                     THEN [q EXCEPT !.pc = "unlockSrc", !.status = res.status,
                                    !.err = res.err]
                     ELSE Return(q, res.status, res.err)
              ELSE [q EXCEPT !.dstToken = res.token, !.pc = "fs"]]
  /\ UNCHANGED <<handler, fs, props, served>>

\* The lock on dst, after the lock on src was created.
LockDst(r) ==
  LET q == req[r] IN
  /\ q.pc = "lockDst"
  /\ CanRun(TempLock(ArgDst(q)))
  /\ \E infra \in BOOLEAN :
       LET res == lock(locks, FreshOr, ArgDst(q), infra) IN
       /\ locks' = res.locks
       /\ req' = [req EXCEPT ![r] =
            IF res.err # "nil"
              THEN IF q.srcToken # NoToken
                     THEN [q EXCEPT !.pc = "unlockSrc", !.status = res.status,
                                    !.err = res.err]
                     ELSE Return(q, res.status, res.err)
              ELSE [q EXCEPT !.dstToken = res.token, !.pc = "fs"]]
  /\ UNCHANGED <<handler, fs, props, served>>

\* A confirmLocks that returns the failure and keeps the lock on src.
UnlockSrcSkipped(r) ==
  LET q == req[r] IN
  /\ q.pc = "unlockSrc"
  /\ locks' = locks
  /\ req' = [req EXCEPT ![r] = Return(q, q.status, q.err)]
  /\ UNCHANGED <<handler, fs, props, served>>

\* The lock on dst failed: the lock on src is unlocked before the return.
UnlockSrc(r) ==
  LET q == req[r] IN
  /\ q.pc = "unlockSrc"
  /\ locks' = Unlock(locks, q.srcToken).locks
  /\ req' = [req EXCEPT ![r] = Return(q, q.status, q.err)]
  /\ UNCHANGED <<handler, fs, props, served>>

(***************************************************************************)
(* The start of a request: the handler runs up to and including its first  *)
(* call of the lock store.  M is the menu of inputs of the request.        *)
(***************************************************************************)
\* handlePut, handleDelete, handleMkcol, handleProppatch.
StartSimple(r, M) ==
  /\ Accept(r)
  /\ \E m \in M.methods, h \in IfHeaders(M.ifs, Citable) :
     \E u \in IF m = "PROPPATCH" THEN M.patchUrls ELSE M.urls :
       LET sp == stripPrefix(u)
           q == [IdleReq EXCEPT !.n = served + 1, !.method = m, !.url = u,
                                !.ifh = h, !.src = sp.path]
       IN
       IF sp.err # "nil"
         THEN /\ req' = [req EXCEPT ![r] = Return([q EXCEPT !.src = Empty], sp.status, sp.err)]
              /\ locks' = locks
         ELSE ConfirmStep(r, q)
  /\ UNCHANGED <<handler, fs, props>>

\* handleCopyMove.
StartCopyMove(r, M) ==
  /\ Accept(r)
  /\ \E m \in {"COPY", "MOVE"}, u \in M.cmUrls, d \in M.dests,
        h \in IfHeaders(M.ifs, Citable) :
       LET q == [IdleReq EXCEPT !.n = served + 1, !.method = m, !.url = u, !.ifh = h]
           s == stripPrefix(u)
           t == stripPrefix(d.path)
           early ==
             IF d.kind = "absent" THEN Return(q, 400, "errInvalidDestination")
             ELSE IF d.kind = "malformed" THEN Return(q, 400, "errInvalidDestination")
             ELSE IF d.host # "same" THEN Return(q, 502, "errInvalidDestination")
             ELSE IF s.err # "nil" THEN Return(q, s.status, s.err)
             ELSE IF t.err # "nil" THEN Return(q, t.status, t.err)
             ELSE IF t.path = Empty THEN Return(q, 502, "errInvalidDestination")
             ELSE IF t.path = s.path THEN Return(q, 403, "errDestinationEqualsSource")
             ELSE q
       IN
       IF early.pc = "done"
         THEN /\ req' = [req EXCEPT ![r] = early]
              /\ locks' = locks
         ELSE ConfirmStep(r, [q EXCEPT !.src = s.path, !.dst = t.path])
  /\ UNCHANGED <<handler, fs, props>>

(***************************************************************************)
(* The handlers between confirmLocks and release: the file system phase.   *)
(***************************************************************************)
\* The dead properties of resources that no longer exist are gone.
Norm(f, ps) == {p \in ps : KindOf(f, p) # "absent"}

\* The handler computed (status, err); the deferred release comes next.
Computed(q, status, err) == [q EXCEPT !.pc = "release", !.status = status, !.err = err]

\* handlePut that answers 201 whatever OpenFile returned.
FsPutCreated(r, M) ==
  LET q == req[r] IN
  /\ q.pc = "fs" /\ q.method = "PUT"
  /\ \E in \in M.puts :
       LET o == OpenFileWrite(fs, q.src, IF in.copyErr THEN "empty" ELSE in.body) IN
       /\ fs' = o.fs
       /\ req' = [req EXCEPT ![r] =
            IF in.copyErr THEN Computed(q, 405, "ErrCopy")
            ELSE IF in.etagErr THEN Computed(q, 500, "ErrETag")
            ELSE Computed(q, 201, "nil")]
  /\ props' = Norm(fs', props)
  /\ UNCHANGED <<handler, locks, served>>

\* handlePut after confirmLocks.
FsPut(r, M) ==
  LET q == req[r] IN
  /\ q.pc = "fs" /\ q.method = "PUT"
  /\ \E in \in M.puts :
       LET o == OpenFileWrite(fs, q.src, IF in.copyErr THEN "empty" ELSE in.body) IN
       /\ fs' = o.fs
       /\ req' = [req EXCEPT ![r] =
            IF o.err # "nil" THEN Computed(q, 404, o.err)
            ELSE IF in.copyErr THEN Computed(q, 405, "ErrCopy")
            ELSE IF in.etagErr THEN Computed(q, 500, "ErrETag")
            ELSE Computed(q, 201, "nil")]
  /\ props' = Norm(fs', props)
  /\ UNCHANGED <<handler, locks, served>>

\* handleDelete after confirmLocks.
FsDelete(r) ==
  LET q == req[r]
      rm == RemoveAll(fs, q.src)
  IN
  /\ q.pc = "fs" /\ q.method = "DELETE"
  /\ IF StatErr(fs, q.src) # "nil"
       THEN /\ fs' = fs
            /\ req' = [req EXCEPT ![r] = Computed(q, 404, "ErrNotExist")]
       ELSE /\ fs' = rm.fs
            /\ req' = [req EXCEPT ![r] =
                 IF rm.err # "nil" THEN Computed(q, 405, rm.err)
                 ELSE Computed(q, 204, "nil")]
  /\ props' = Norm(fs', props)
  /\ UNCHANGED <<handler, locks, served>>

\* handleMkcol after confirmLocks.
FsMkcol(r, M) ==
  LET q == req[r]
      mk == Mkdir(fs, q.src)
  IN
  /\ q.pc = "fs" /\ q.method = "MKCOL"
  /\ \E hasBody \in M.mkcolBodies :
       IF hasBody
         THEN /\ fs' = fs
              /\ req' = [req EXCEPT ![r] = Computed(q, 415, "nil")]
         ELSE /\ fs' = mk.fs
              /\ req' = [req EXCEPT ![r] =
                   IF mk.err = "ErrNotExist" THEN Computed(q, 409, mk.err)
                   ELSE IF mk.err # "nil" THEN Computed(q, 405, mk.err)
                   ELSE Computed(q, 201, "nil")]
  /\ UNCHANGED <<handler, props, locks, served>>

\* MultiStatusWriter.Write of the first response followed by Close: the
\* status line 207 and the body, where `mw` says which of the two fails.
MultiStatusOutcomes == {"ok", "writeErr", "closeErr"}
MultiStatus(q, mw) ==
  IF mw = "writeErr" THEN WriteHeader(q, 207)
  ELSE Write(WriteHeader(q, 207), "xml")

\* handleProppatch after confirmLocks: the patch sets or removes the dead
\* property of the resource.
FsProppatch(r, M) ==
  LET q == req[r] IN
  /\ q.pc = "fs" /\ q.method = "PROPPATCH"
  /\ \E patch \in M.patches, mw \in M.mwErrs :
       IF StatErr(fs, q.src) # "nil"
         THEN /\ props' = props
              /\ req' = [req EXCEPT ![r] = Computed(q, 404, "ErrNotExist")]
       ELSE IF patch = "bad"
         THEN /\ props' = props
              /\ req' = [req EXCEPT ![r] = Computed(q, 400, "errInvalidProppatch")]
       ELSE /\ props' = IF patch = "set" THEN props \cup {slashClean(q.src)}
                                         ELSE props \ {slashClean(q.src)}
            /\ req' = [req EXCEPT ![r] =
                 IF mw = "writeErr" THEN Computed(MultiStatus(q, mw), 500, "ErrWrite")
                 ELSE IF mw = "closeErr" THEN Computed(MultiStatus(q, mw), 500, "ErrClose")
                 ELSE Computed(MultiStatus(q, mw), 0, "nil")]
  /\ UNCHANGED <<handler, fs, locks, served>>

\* handleCopyMove after confirmLocks, method COPY.
FsCopy(r, M) ==
  LET q == req[r] IN
  /\ q.pc = "fs" /\ q.method = "COPY"
  /\ \E dh \in M.depths, ow \in M.overwrites :
       LET depth == IF dh # "" THEN parseDepth(dh) ELSE infiniteDepth
           p == [q EXCEPT !.depth = dh, !.overwrite = ow]
           cp == copyFiles(fs, q.src, q.dst, ow # "F", depth)
       IN
       IF depth # 0 /\ depth # infiniteDepth
         THEN /\ fs' = fs
              /\ req' = [req EXCEPT ![r] = Computed(p, 400, "errInvalidDepth")]
         ELSE /\ fs' = cp.fs
              /\ req' = [req EXCEPT ![r] =
                   Computed([p EXCEPT !.flag = (ow # "F")], cp.status, cp.err)]
  /\ props' = Norm(fs', props)
  /\ UNCHANGED <<handler, locks, served>>

\* A handleCopyMove that moves whatever the Depth header says.
FsMoveAnyDepth(r, M) ==
  LET q == req[r] IN
  /\ q.pc = "fs" /\ q.method = "MOVE"
  /\ \E dh \in M.depths, ow \in M.overwrites :
       LET p == [q EXCEPT !.depth = dh, !.overwrite = ow]
           mv == moveFiles(fs, q.src, q.dst, ow = "T")
       IN
       /\ fs' = mv.fs
       /\ req' = [req EXCEPT ![r] =
            Computed([p EXCEPT !.flag = (ow = "T")], mv.status, mv.err)]
  /\ props' = Norm(fs', props)
  /\ UNCHANGED <<handler, locks, served>>

\* handleCopyMove after confirmLocks, method MOVE.
FsMove(r, M) ==
  LET q == req[r] IN
  /\ q.pc = "fs" /\ q.method = "MOVE"
  /\ \E dh \in M.depths, ow \in M.overwrites :
       LET p == [q EXCEPT !.depth = dh, !.overwrite = ow]
           mv == moveFiles(fs, q.src, q.dst, ow = "T")
       IN
       IF dh # "" /\ parseDepth(dh) # infiniteDepth
         THEN /\ fs' = fs
              /\ req' = [req EXCEPT ![r] = Computed(p, 400, "errInvalidDepth")]
         ELSE /\ fs' = mv.fs
              /\ req' = [req EXCEPT ![r] =
                   Computed([p EXCEPT !.flag = (ow = "T")], mv.status, mv.err)]
  /\ props' = Norm(fs', props)
  /\ UNCHANGED <<handler, locks, served>>

(***************************************************************************)
(* The deferred release.                                                   *)
(***************************************************************************)
\* A release function that unlocks src before dst.
ReleaseSrcFirst(r) ==
  LET q == req[r] IN
  /\ q.pc = "release"
  /\ IF q.ifh.kind = "absent"
       THEN IF q.srcToken # NoToken
              THEN /\ locks' = Unlock(locks, q.srcToken).locks
                   /\ req' = [req EXCEPT ![r] =
                        IF q.dstToken # NoToken THEN [q EXCEPT !.pc = "release2"]
                        ELSE Done(q)]
            ELSE IF q.dstToken # NoToken
              THEN /\ locks' = Unlock(locks, q.dstToken).locks
                   /\ req' = [req EXCEPT ![r] = Done(q)]
            ELSE /\ locks' = locks
                 /\ req' = [req EXCEPT ![r] = Done(q)]
       ELSE /\ locks' = Unhold(locks, q.holds)
            /\ req' = [req EXCEPT ![r] = Done(q)]
  /\ UNCHANGED <<handler, fs, props, served>>

\* The first call of the release function: without an If header Unlock of
\* dstToken (or of srcToken when there is no dstToken), with an If header
\* the release function of Confirm.
Release(r) ==
  LET q == req[r] IN
  /\ q.pc = "release"
  /\ IF q.ifh.kind = "absent"
       THEN IF q.dstToken # NoToken
              THEN /\ locks' = Unlock(locks, q.dstToken).locks
                   /\ req' = [req EXCEPT ![r] =
                        IF q.srcToken # NoToken THEN [q EXCEPT !.pc = "release2"]
                        ELSE Done(q)]
            ELSE IF q.srcToken # NoToken
              THEN /\ locks' = Unlock(locks, q.srcToken).locks
                   /\ req' = [req EXCEPT ![r] = Done(q)]
            ELSE /\ locks' = locks
                 /\ req' = [req EXCEPT ![r] = Done(q)]
       ELSE /\ locks' = Unhold(locks, q.holds)
            /\ req' = [req EXCEPT ![r] = Done(q)]
  /\ UNCHANGED <<handler, fs, props, served>>

\* A release function that forgets the lock on src.
Release2Forgets(r) ==
  LET q == req[r] IN
  /\ q.pc = "release2"
  /\ locks' = locks
  /\ req' = [req EXCEPT ![r] = Done(q)]
  /\ UNCHANGED <<handler, fs, props, served>>

\* The second call of the release function: Unlock of srcToken.
Release2(r) ==
  LET q == req[r] IN
  /\ q.pc = "release2"
  /\ locks' = Unlock(locks, q.srcToken).locks
  /\ req' = [req EXCEPT ![r] = Done(q)]
  /\ UNCHANGED <<handler, fs, props, served>>

(***************************************************************************)
(* handleLock, creating a lock (a request with a lockinfo body).           *)
(***************************************************************************)
\* The token of the first condition of the first list, however many there
\* are.
RefreshTokenFirst(h) ==
  IF h.kind = "lists" /\ h.lists[1].tokens # {NoToken}
    THEN CHOOSE t \in h.lists[1].tokens : t # NoToken
    ELSE NoToken

\* The token of a refresh: that of an If header with one list of one
\* condition, otherwise none.
RefreshToken(h) ==
  IF h.kind = "lists" /\ Len(h.lists) = 1 /\ Cardinality(h.lists[1].tokens) = 1
    THEN CHOOSE t \in h.lists[1].tokens : TRUE
    ELSE NoToken

\* handleLock up to and including its call of the lock store: Refresh for a
\* request without a lockinfo body, Create for one with it.
handleLock(r, M) ==
  /\ Accept(r)
  /\ \E th \in M.timeouts, body \in M.lockBodies :
     \* a refresh reads neither the URL nor Depth, a create does not read If
     \E u \in IF body = "empty" THEN {UrlA} ELSE M.lockUrls,
        dh \in IF body = "empty" THEN {""} ELSE M.lockDepths,
        h \in IF body = "empty" THEN IfHeaders(M.lockIfs, Citable) ELSE {IfAbsent} :
       LET q == [IdleReq EXCEPT !.n = served + 1, !.method = "LOCK", !.url = u,
                                !.depth = dh, !.ifh = h, !.lockInfo = body]
           to == parseTimeout(th)
           depth == IF dh # "" THEN parseDepth(dh) ELSE infiniteDepth
           sp == stripPrefix(u)
           ld == [root |-> sp.path, duration |-> to.duration, zeroDepth |-> (depth = 0)]
           p == [q EXCEPT !.src = sp.path, !.duration = ld.duration,
                          !.zeroDepth = ld.zeroDepth]
       IN
       IF to.err # "nil"
         THEN /\ req' = [req EXCEPT ![r] = Return(q, 400, to.err)]
              /\ locks' = locks
       ELSE IF body = "bad"
         THEN /\ req' = [req EXCEPT ![r] = Return(q, 400, "errInvalidLockInfo")]
              /\ locks' = locks
       ELSE IF body = "empty"
         THEN IF h.kind \in {"absent", "malformed"}
                THEN /\ req' = [req EXCEPT ![r] = Return(q, 400, "errInvalidIfHeader")]
                     /\ locks' = locks
              ELSE IF RefreshToken(h) = NoToken
                THEN /\ req' = [req EXCEPT ![r] = Return(q, 400, "errInvalidLockToken")]
                     /\ locks' = locks
              ELSE \E infra \in BOOLEAN :
                     LET rf == Refresh(locks, RefreshToken(h), to.duration, infra)
                         g == [q EXCEPT !.duration = to.duration]
                     IN
                     /\ locks' = rf.locks
                     /\ req' = [req EXCEPT ![r] =
                          IF rf.err = "ErrNoSuchLock" THEN Return(g, 412, rf.err)
                          ELSE IF rf.err # "nil" THEN Return(g, 500, rf.err)
                          ELSE Return(Write(g, "xml"), 0, "nil")]
       ELSE IF depth # 0 /\ depth # infiniteDepth
         THEN /\ req' = [req EXCEPT ![r] = Return(q, 400, "errInvalidDepth")]
              /\ locks' = locks
       ELSE IF sp.err # "nil"
         THEN /\ req' = [req EXCEPT ![r] = Return(q, sp.status, sp.err)]
              /\ locks' = locks
       ELSE /\ CanRun(ld)
            /\ \E infra \in BOOLEAN :
                 LET c == Create(locks, FreshOr, ld, infra) IN
                 /\ locks' = c.locks
                 /\ req' = [req EXCEPT ![r] =
                      IF c.err = "ErrLocked" THEN Return(p, StatusLocked, c.err)
                      ELSE IF c.err # "nil" THEN Return(p, 500, c.err)
                      ELSE [p EXCEPT !.pc = "lockFs", !.token = c.token]]
  /\ UNCHANGED <<handler, fs, props>>

\* A handleLock that opens the resource without asking whether it exists.
LockFsTruncates(r) ==
  LET q == req[r]
      o == OpenFileWrite(fs, q.src, "empty")
  IN
  /\ q.pc = "lockFs"
  /\ IF o.err # "nil"
       THEN /\ fs' = fs
            /\ req' = [req EXCEPT ![r] = [q EXCEPT !.pc = "rollback",
                                                   !.status = 500, !.err = o.err]]
       ELSE /\ fs' = o.fs
            /\ req' = [req EXCEPT ![r] =
                 Return(Write(WriteHeader([q EXCEPT !.created = TRUE,
                                                    !.lockTokenOut = q.token],
                                          201), "xml"), 0, "nil")]
  /\ UNCHANGED <<handler, props, locks, served>>

\* The rest of handleLock: the resource is created when it does not exist,
\* the Lock-Token header and the body are written.
LockFs(r) ==
  LET q == req[r]
      o == OpenFileWrite(fs, q.src, "empty")
  IN
  /\ q.pc = "lockFs"
  /\ IF StatErr(fs, q.src) # "nil"
       THEN IF o.err # "nil"
              THEN /\ fs' = fs
                   /\ req' = [req EXCEPT ![r] = [q EXCEPT !.pc = "rollback",
                                                          !.status = 500, !.err = o.err]]
              ELSE /\ fs' = o.fs
                   /\ req' = [req EXCEPT ![r] =
                        Return(Write(WriteHeader([q EXCEPT !.created = TRUE,
                                                           !.lockTokenOut = q.token],
                                                 201), "xml"), 0, "nil")]
       ELSE /\ fs' = fs
            /\ req' = [req EXCEPT ![r] =
                 Return(Write([q EXCEPT !.lockTokenOut = q.token], "xml"), 0, "nil")]
  /\ UNCHANGED <<handler, props, locks, served>>

\* A handler that returns its error and keeps the lock.
RollbackSkipped(r) ==
  LET q == req[r] IN
  /\ q.pc = "rollback"
  /\ locks' = locks
  /\ req' = [req EXCEPT ![r] = Done(q)]
  /\ UNCHANGED <<handler, fs, props, served>>

\* The deferred rollback of handleLock: retErr != nil.
Rollback(r) ==
  LET q == req[r] IN
  /\ q.pc = "rollback"
  /\ locks' = IF q.err # "nil" THEN Unlock(locks, q.token).locks ELSE locks
  /\ req' = [req EXCEPT ![r] = Done(q)]
  /\ UNCHANGED <<handler, fs, props, served>>

(***************************************************************************)
(* handleUnlock.                                                           *)
(***************************************************************************)
\* An UNLOCK that answers 204 when there is no such lock.
UnlockStatusIdempotent(err) ==
  CASE err = "nil" -> 204
    [] err = "ErrForbidden" -> 403
    [] err = "ErrLocked" -> StatusLocked
    [] err = "ErrNoSuchLock" -> 204
    [] OTHER -> 500

UnlockStatus(err) ==
  CASE err = "nil" -> 204
    [] err = "ErrForbidden" -> 403
    [] err = "ErrLocked" -> StatusLocked
    [] err = "ErrNoSuchLock" -> 409
    [] OTHER -> 500

handleUnlock(r) ==
  /\ Accept(r)
  /\ \E t \in LockTokenHeaders(Citable \cup Cited) :
       LET q == [IdleReq EXCEPT !.n = served + 1, !.method = "UNLOCK", !.lockToken = t] IN
       IF BadLockToken(t)
         THEN /\ locks' = locks
              /\ req' = [req EXCEPT ![r] = Return(q, 400, "errInvalidLockToken")]
         ELSE LET u == Unlock(locks, StripBrackets(t)) IN
              /\ locks' = u.locks
              /\ req' = [req EXCEPT ![r] = Return(q, UnlockStatus(u.err), u.err)]
  /\ UNCHANGED <<handler, fs, props>>

(***************************************************************************)
(* The handlers that read: OPTIONS, GET/HEAD/POST and PROPFIND.            *)
(***************************************************************************)
handleOptions(r, M) ==
  /\ Accept(r)
  /\ \E u \in M.readUrls :
       LET sp == stripPrefix(u)
           q == [IdleReq EXCEPT !.n = served + 1, !.method = "OPTIONS", !.url = u]
           kind == KindOf(fs, slashClean(sp.path))
       IN
       req' = [req EXCEPT ![r] =
         IF sp.err # "nil" THEN Return(q, sp.status, sp.err)
         ELSE Return([q EXCEPT !.src = sp.path,
                               !.allow = IF kind = "absent" THEN "none"
                                         ELSE IF kind = "dir" THEN "dir" ELSE "file"],
                     0, "nil")]
  /\ UNCHANGED <<handler, fs, props, locks>>

\* http.ServeContent: the status line and, unless the method is HEAD, the
\* content of the file.
ServeContent(q) ==
  IF q.method = "HEAD" THEN WriteHeader(q, 200) ELSE Write(q, "file")

\* A handler that refuses to read a resource that a lock covers.
handleGetHeadPostLocked(r, M) ==
  /\ Accept(r)
  /\ \E m \in M.getMethods, u \in M.readUrls, etagErr \in M.etagErrs :
       LET sp == stripPrefix(u)
           q == [IdleReq EXCEPT !.n = served + 1, !.method = m, !.url = u]
           p == [q EXCEPT !.src = sp.path]
           kind == KindOf(fs, slashClean(sp.path))
       IN
       req' = [req EXCEPT ![r] =
         IF sp.err # "nil" THEN Return(q, sp.status, sp.err)
         ELSE IF \E l \in locks : Covers(l, sp.path)
           THEN Return(p, StatusLocked, "ErrLocked")
         ELSE IF kind = "absent" THEN Return(p, 404, "ErrNotExist")
         ELSE IF kind = "dir" THEN Return(p, 405, "nil")
         ELSE IF etagErr THEN Return(p, 500, "ErrETag")
         ELSE Return(ServeContent(p), 0, "nil")]
  /\ UNCHANGED <<handler, fs, props, locks>>

handleGetHeadPost(r, M) ==
  /\ Accept(r)
  /\ \E m \in M.getMethods, u \in M.readUrls, etagErr \in M.etagErrs :
       LET sp == stripPrefix(u)
           q == [IdleReq EXCEPT !.n = served + 1, !.method = m, !.url = u]
           p == [q EXCEPT !.src = sp.path]
           kind == KindOf(fs, slashClean(sp.path))
       IN
       req' = [req EXCEPT ![r] =
         IF sp.err # "nil" THEN Return(q, sp.status, sp.err)
         ELSE IF kind = "absent" THEN Return(p, 404, "ErrNotExist")
         ELSE IF kind = "dir" THEN Return(p, 405, "nil")
         ELSE IF etagErr THEN Return(p, 500, "ErrETag")
         ELSE Return(ServeContent(p), 0, "nil")]
  /\ UNCHANGED <<handler, fs, props, locks>>

\* walkFS(depth, name): the resources the walk visits, the root of the walk
\* first.
Walked(f, name, depth) ==
  LET root == slashClean(name) IN
  {root} \cup
    IF depth = 0 \/ KindOf(f, root) # "dir" THEN {}
    ELSE {c \in FsPaths : /\ KindOf(f, c) # "absent"
                          /\ IsUnder(c, root)
                          /\ depth = 1 => Parent(c) = root}

\* MultiStatusWriter.Write of n responses: the status line 207 before the
\* first of them.
RECURSIVE Responses(_, _)
Responses(q, n) ==
  IF n = 0 THEN q
  ELSE LET b == Responses(q, n - 1) IN
       Write(IF b.wrote = <<>> THEN WriteHeader(b, 207) ELSE b, "xml")

\* handlePropfind: `failAt` is the visit whose propstats fail (0: none),
\* `closeErr` a failure of MultiStatusWriter.Close.
handlePropfind(r, M) ==
  /\ Accept(r)
  /\ \E u \in M.readUrls, dh \in M.propDepths, pf \in M.propfinds,
        failAt \in M.failAts, closeErr \in M.closeErrs :
       LET sp == stripPrefix(u)
           q == [IdleReq EXCEPT !.n = served + 1, !.method = "PROPFIND", !.url = u,
                                !.depth = dh]
           p == [q EXCEPT !.src = sp.path]
           depth == IF dh # "" THEN parseDepth(dh) ELSE infiniteDepth
           visits == Cardinality(Walked(fs, sp.path, depth))
           emitted == IF failAt = 0 THEN visits ELSE failAt - 1
           w == Responses(p, emitted)
       IN
       /\ failAt <= visits
       /\ req' = [req EXCEPT ![r] =
            IF sp.err # "nil" THEN Return(q, sp.status, sp.err)
            ELSE IF StatErr(fs, sp.path) # "nil" THEN Return(p, 404, "ErrNotExist")
            ELSE IF dh # "" /\ depth = invalidDepth THEN Return(p, 400, "errInvalidDepth")
            ELSE IF pf = "bad" THEN Return(p, 400, "errInvalidPropfind")
            ELSE IF failAt # 0 THEN Return(w, 500, "ErrWalk")
            ELSE IF closeErr THEN Return(w, 500, "ErrClose")
            ELSE Return(w, 0, "nil")]
  /\ UNCHANGED <<handler, fs, props, locks>>

(***************************************************************************)
(* The environment.                                                        *)
(***************************************************************************)
\* Time passes: a lock of finite duration that no Confirm holds expires.
Expire ==
  /\ \E l \in locks :
       /\ l.duration = "finite"
       /\ ~l.held
       /\ locks' = locks \ {l}
  /\ UNCHANGED <<handler, fs, props, req, served>>

(***************************************************************************)
(* Specifications.                                                         *)
(***************************************************************************)
SameHost(u) == [kind |-> "url", host |-> "same", path |-> u]

\* Concurrent requests without an If header: every mutating method on /, /a,
\* /a/x and /b and LOCK on /a, by two requests at a time.
Menu ==
  [ methods |-> {"PUT", "DELETE", "MKCOL", "PROPPATCH"},
    urls |-> {UrlRoot, UrlA, UrlAX}, patchUrls |-> {UrlRoot, UrlA},
    cmUrls |-> {UrlA, UrlB}, dests |-> {SameHost(UrlA), SameHost(UrlB)},
    ifs |-> "none",
    puts |-> {[body |-> "data", copyErr |-> FALSE, etagErr |-> FALSE]},
    mkcolBodies |-> {FALSE}, patches |-> {"set"}, mwErrs |-> {"ok"},
    depths |-> {""}, overwrites |-> {"T"},
    lockUrls |-> {UrlA}, timeouts |-> {""}, lockBodies |-> {"lockinfo"}, lockIfs |-> "none",
    lockDepths |-> {""} ]

Next ==
  \/ \E r \in Reqs : StartSimple(r, Menu)
  \/ \E r \in Reqs : StartCopyMove(r, Menu)
  \/ \E r \in Reqs : LockDst(r)
  \/ \E r \in Reqs : UnlockSrc(r)
  \/ \E r \in Reqs : FsPut(r, Menu)
  \/ \E r \in Reqs : FsDelete(r)
  \/ \E r \in Reqs : FsMkcol(r, Menu)
  \/ \E r \in Reqs : FsProppatch(r, Menu)
  \/ \E r \in Reqs : FsCopy(r, Menu)
  \/ \E r \in Reqs : FsMove(r, Menu)
  \/ \E r \in Reqs : Release(r)
  \/ \E r \in Reqs : Release2(r)
  \/ \E r \in Reqs : handleLock(r, Menu)
  \/ \E r \in Reqs : LockFs(r)

Spec == Init /\ [][Next]_vars

\* One client whose requests carry an If header of one list or none, while
\* another client locks and unlocks /a and /a/x.
MenuSeq ==
  [ methods |-> {"PUT", "DELETE", "MKCOL", "PROPPATCH"},
    urls |-> {UrlRoot, UrlA, UrlAX}, patchUrls |-> {UrlRoot, UrlA},
    cmUrls |-> {UrlA, UrlB}, dests |-> {SameHost(UrlA), SameHost(UrlB)},
    ifs |-> "simple",
    puts |-> {[body |-> "data", copyErr |-> FALSE, etagErr |-> FALSE],
              [body |-> "data", copyErr |-> TRUE, etagErr |-> FALSE],
              [body |-> "data", copyErr |-> FALSE, etagErr |-> TRUE]},
    mkcolBodies |-> BOOLEAN, patches |-> {"set"}, mwErrs |-> {"ok"},
    depths |-> {"", "1"}, overwrites |-> {"T"},
    lockUrls |-> {UrlA, UrlAX}, timeouts |-> {""},
    lockBodies |-> {"lockinfo"}, lockIfs |-> "none", lockDepths |-> {"", "0"} ]

NextSeq ==
  \/ StartSimple("r1", MenuSeq)
  \/ StartCopyMove("r1", MenuSeq)
  \/ LockDst("r1")
  \/ UnlockSrc("r1")
  \/ FsPut("r1", MenuSeq)
  \/ FsDelete("r1")
  \/ FsMkcol("r1", MenuSeq)
  \/ FsProppatch("r1", MenuSeq)
  \/ FsCopy("r1", MenuSeq)
  \/ FsMove("r1", MenuSeq)
  \/ Release("r1")
  \/ Release2("r1")
  \/ handleLock("r2", MenuSeq)
  \/ LockFs("r2")
  \/ Rollback("r2")
  \/ handleUnlock("r2")

SpecSeq == Init /\ [][NextSeq]_vars

\* One client whose requests carry every value of the headers and of the
\* bodies that the handlers read.
MenuHdr ==
  [ methods |-> {"PUT", "DELETE", "MKCOL", "PROPPATCH"},
    urls |-> UrlPaths, patchUrls |-> {UrlRoot, UrlA, UrlOther},
    cmUrls |-> CopyMoveUrls, dests |-> Destinations,
    ifs |-> "simple",
    puts |-> {[body |-> "data", copyErr |-> FALSE, etagErr |-> FALSE],
              [body |-> "empty", copyErr |-> FALSE, etagErr |-> FALSE],
              [body |-> "data", copyErr |-> TRUE, etagErr |-> FALSE],
              [body |-> "data", copyErr |-> FALSE, etagErr |-> TRUE]},
    mkcolBodies |-> BOOLEAN, patches |-> {"set", "remove", "bad"}, mwErrs |-> {"ok"},
    depths |-> DepthHeaders, overwrites |-> OverwriteHeaders,
    lockUrls |-> {UrlA}, timeouts |-> {""},
    lockBodies |-> {"lockinfo"}, lockIfs |-> "none", lockDepths |-> {""} ]

NextHdr ==
  \/ StartSimple("r1", MenuHdr)
  \/ StartCopyMove("r1", MenuHdr)
  \/ LockDst("r1")
  \/ FsPut("r1", MenuHdr)
  \/ FsDelete("r1")
  \/ FsMkcol("r1", MenuHdr)
  \/ FsProppatch("r1", MenuHdr)
  \/ FsCopy("r1", MenuHdr)
  \/ FsMove("r1", MenuHdr)
  \/ Release("r1")
  \/ Release2("r1")

SpecHdr == Init /\ [][NextHdr]_vars

\* One client that locks, with every value of the headers and of the body
\* that LOCK reads, another that unlocks, and locks that expire.
MenuLock ==
  [ methods |-> {"PUT"},
    urls |-> {UrlA}, patchUrls |-> {UrlA},
    cmUrls |-> {UrlA}, dests |-> {SameHost(UrlB)},
    ifs |-> "none",
    puts |-> {[body |-> "data", copyErr |-> FALSE, etagErr |-> FALSE]},
    mkcolBodies |-> {FALSE}, patches |-> {"set"}, mwErrs |-> {"ok"},
    depths |-> {""}, overwrites |-> {"T"},
    lockUrls |-> {UrlRoot, UrlA, UrlAX, UrlOther}, timeouts |-> TimeoutHeaders,
    lockBodies |-> {"lockinfo", "bad", "empty"}, lockIfs |-> "pair",
    lockDepths |-> DepthHeaders ]

NextLock ==
  \/ handleLock("r1", MenuLock)
  \/ LockFs("r1")
  \/ Rollback("r1")
  \/ handleUnlock("r2")
  \/ Expire

SpecLock == Init /\ [][NextLock]_vars

\* One client whose PUT and MOVE requests carry an If header of up to two
\* lists, while another client locks and unlocks.
MenuIf ==
  [ methods |-> {"PUT"},
    urls |-> {UrlA, UrlAX}, patchUrls |-> {UrlA},
    cmUrls |-> {UrlA}, dests |-> {SameHost(UrlB)},
    ifs |-> "rich",
    puts |-> {[body |-> "data", copyErr |-> FALSE, etagErr |-> FALSE]},
    mkcolBodies |-> {FALSE}, patches |-> {"set"}, mwErrs |-> {"ok"},
    depths |-> {""}, overwrites |-> {"T"},
    lockUrls |-> {UrlA, UrlB}, timeouts |-> {""},
    lockBodies |-> {"lockinfo"}, lockIfs |-> "none", lockDepths |-> {"", "0"} ]

NextIf ==
  \/ StartSimple("r1", MenuIf)
  \/ StartCopyMove("r1", MenuIf)
  \/ ConfirmNext("r1")
  \/ LockDst("r1")
  \/ UnlockSrc("r1")
  \/ FsPut("r1", MenuIf)
  \/ FsCopy("r1", MenuIf)
  \/ FsMove("r1", MenuIf)
  \/ Release("r1")
  \/ Release2("r1")
  \/ handleLock("r2", MenuIf)
  \/ LockFs("r2")
  \/ handleUnlock("r2")

SpecIf == Init /\ [][NextIf]_vars

\* One client that sends every method to a handler with or without a
\* prefix, on URL paths inside and outside the prefix: /d, /d/a, /dd/a, /e/a
\* and /a.
UrlDD == <<"/", "d", "d">> \o PathA
ServeUrls == {UrlRoot, UrlA, UrlDD, UrlOther, PathA}

MenuServe ==
  [ methods |-> {"PUT", "DELETE", "MKCOL", "PROPPATCH"},
    urls |-> ServeUrls, patchUrls |-> ServeUrls,
    cmUrls |-> {UrlA, UrlDD}, dests |-> {SameHost(UrlB)},
    ifs |-> "none",
    puts |-> {[body |-> "data", copyErr |-> FALSE, etagErr |-> FALSE]},
    mkcolBodies |-> {FALSE}, patches |-> {"set", "bad"}, mwErrs |-> MultiStatusOutcomes,
    depths |-> {""}, overwrites |-> {"T"},
    lockUrls |-> ServeUrls, timeouts |-> {""},
    lockBodies |-> {"lockinfo", "empty"}, lockIfs |-> "simple", lockDepths |-> {""},
    readUrls |-> ServeUrls, getMethods |-> {"GET", "HEAD", "POST"},
    etagErrs |-> BOOLEAN, propDepths |-> {"", "0", "1", "bad"},
    propfinds |-> {"ok", "bad"}, failAts |-> 0..2, closeErrs |-> BOOLEAN ]

InitServe == InitWith(Prefixes)

NextServe ==
  \/ handleOptions("r1", MenuServe)
  \/ handleGetHeadPost("r1", MenuServe)
  \/ handlePropfind("r1", MenuServe)
  \/ StartSimple("r1", MenuServe)
  \/ StartCopyMove("r1", MenuServe)
  \/ LockDst("r1")
  \/ FsPut("r1", MenuServe)
  \/ FsDelete("r1")
  \/ FsMkcol("r1", MenuServe)
  \/ FsProppatch("r1", MenuServe)
  \/ FsCopy("r1", MenuServe)
  \/ FsMove("r1", MenuServe)
  \/ Release("r1")
  \/ Release2("r1")
  \/ handleLock("r1", MenuServe)
  \/ LockFs("r1")
  \/ Rollback("r1")

SpecServe == InitServe /\ [][NextServe]_vars

\* One client that copies, moves and locks /a and /b with every value of
\* the Depth header, with an If header of one list or none.
MenuDepth ==
  [ methods |-> {"PUT"},
    urls |-> {UrlA}, patchUrls |-> {UrlA},
    cmUrls |-> {UrlA, UrlB}, dests |-> {SameHost(UrlA), SameHost(UrlB)},
    ifs |-> "simple",
    puts |-> {[body |-> "data", copyErr |-> FALSE, etagErr |-> FALSE]},
    mkcolBodies |-> {FALSE}, patches |-> {"set"}, mwErrs |-> {"ok"},
    depths |-> DepthHeaders, overwrites |-> {"T"},
    lockUrls |-> {UrlA, UrlB}, timeouts |-> {""},
    lockBodies |-> {"lockinfo"}, lockIfs |-> "none", lockDepths |-> DepthHeaders ]

NextDepth ==
  \/ StartCopyMove("r1", MenuDepth)
  \/ LockDst("r1")
  \/ UnlockSrc("r1")
  \/ FsCopy("r1", MenuDepth)
  \/ FsMove("r1", MenuDepth)
  \/ Release("r1")
  \/ Release2("r1")
  \/ handleLock("r1", MenuDepth)
  \/ LockFs("r1")

SpecDepth == Init /\ [][NextDepth]_vars

\* Two clients that move and copy between /a and /b, crossed or not, and
\* put and delete /a, without an If header.  Every handler that has started
\* goes on running: the server runs each request on a goroutine of its own.
MenuCross ==
  [ methods |-> {"PUT", "DELETE"},
    urls |-> {UrlA}, patchUrls |-> {UrlA},
    cmUrls |-> {UrlA, UrlB}, dests |-> {SameHost(UrlA), SameHost(UrlB)},
    ifs |-> "none",
    puts |-> {[body |-> "data", copyErr |-> FALSE, etagErr |-> FALSE]},
    mkcolBodies |-> {FALSE}, patches |-> {"set"}, mwErrs |-> {"ok"},
    depths |-> {""}, overwrites |-> {"T"},
    lockUrls |-> {UrlA}, timeouts |-> {""}, lockBodies |-> {"lockinfo"}, lockIfs |-> "none",
    lockDepths |-> {""} ]

\* The next step of the handler of request r, once started.
Runs(r) ==
  \/ LockDst(r)
  \/ UnlockSrc(r)
  \/ FsPut(r, MenuCross)
  \/ FsDelete(r)
  \/ FsCopy(r, MenuCross)
  \/ FsMove(r, MenuCross)
  \/ Release(r)
  \/ Release2(r)

NextCross ==
  \/ \E r \in Reqs : StartSimple(r, MenuCross)
  \/ \E r \in Reqs : StartCopyMove(r, MenuCross)
  \/ \E r \in Reqs : LockDst(r)
  \/ \E r \in Reqs : UnlockSrc(r)
  \/ \E r \in Reqs : FsPut(r, MenuCross)
  \/ \E r \in Reqs : FsDelete(r)
  \/ \E r \in Reqs : FsCopy(r, MenuCross)
  \/ \E r \in Reqs : FsMove(r, MenuCross)
  \/ \E r \in Reqs : Release(r)
  \/ \E r \in Reqs : Release2(r)

SpecCross == Init /\ [][NextCross]_vars /\ \A r \in Reqs : WF_vars(Runs(r))

\* One client that reads /, /a, /a/x and a URL outside the prefix while
\* another puts, deletes and locks /a and /a/x.
MenuRead ==
  [ methods |-> {"PUT", "DELETE"},
    urls |-> {UrlA, UrlAX}, patchUrls |-> {UrlA},
    cmUrls |-> {UrlA}, dests |-> {SameHost(UrlB)},
    ifs |-> "none",
    puts |-> {[body |-> "data", copyErr |-> FALSE, etagErr |-> FALSE]},
    mkcolBodies |-> {FALSE}, patches |-> {"set"}, mwErrs |-> {"ok"},
    depths |-> {""}, overwrites |-> {"T"},
    lockUrls |-> {UrlA, UrlAX}, timeouts |-> {""},
    lockBodies |-> {"lockinfo"}, lockIfs |-> "none", lockDepths |-> {"", "0"},
    readUrls |-> {UrlRoot, UrlA, UrlAX, UrlOther}, getMethods |-> {"GET", "HEAD", "POST"},
    etagErrs |-> BOOLEAN, propDepths |-> {"", "0", "1", "bad"},
    propfinds |-> {"ok", "bad"}, failAts |-> 0..2, closeErrs |-> BOOLEAN ]

NextRead ==
  \/ handleOptions("r1", MenuRead)
  \/ handleGetHeadPost("r1", MenuRead)
  \/ handlePropfind("r1", MenuRead)
  \/ StartSimple("r2", MenuRead)
  \/ FsPut("r2", MenuRead)
  \/ FsDelete("r2")
  \/ Release("r2")
  \/ handleLock("r2", MenuRead)
  \/ LockFs("r2")
  \/ Rollback("r2")

SpecRead == Init /\ [][NextRead]_vars

(***************************************************************************)
(* Properties.                                                             *)
(***************************************************************************)
Mutating == {"PUT", "DELETE", "MKCOL", "PROPPATCH", "COPY", "MOVE"}

\* The paths confirmLocks locks for request q.
LockedPaths(q) == {ArgSrc(q), ArgDst(q)} \ {Empty}

\* Request q is between its successful confirmLocks and its release.
Between(q) == q.method \in Mutating /\ q.pc \in {"fs", "release"}

\* Request q holds a temporary lock rooted at P.
HoldsTemp(q, P) ==
  /\ q.ifh.kind = "absent"
  /\ \E l \in locks : /\ l.root = P /\ l.zeroDepth
                      /\ l.token \in {q.srcToken, q.dstToken} \ {NoToken}

\* This step is the call of Create on P by request r: the first lock of a
\* mutating request without an If header, the Create of LOCK, or the lock
\* on the destination of a MOVE.
Attempts(r, P) ==
  \/ /\ served' # served
     /\ req'[r].n = served'
     /\ req'[r].ifh.kind = "absent"
     /\ \/ /\ req'[r].method \in Mutating
           /\ P = IF ArgSrc(req'[r]) # Empty THEN ArgSrc(req'[r]) ELSE ArgDst(req'[r])
        \/ req'[r].method = "LOCK" /\ P = req'[r].src
  \/ /\ req[r].pc = "lockDst"
     /\ req'[r] # req[r]
     /\ P = req[r].dst

\* Request r was refused with the lock conflict error and goes on to return.
Rejected(r) ==
  /\ req'[r].err = "ErrLocked"
  /\ req'[r].status = StatusLocked
  /\ req'[r].pc \in {"done", "unlockSrc"}
  /\ fs' = fs /\ props' = props

\* C1: mutual exclusion on one path.  For every non-empty path P at most
\* one request without an If header that mutates P is between its successful
\* confirmLocks and its release, and while such a request holds its temporary
\* lock on P, the Create on P of any other mutating request without an If
\* header or of a LOCK is refused: the request gets ErrLocked (423) and
\* changes nothing in the file system.
C1_MutualExclusion ==
  /\ [](\A P \in FsPaths :
          Cardinality({r \in Reqs : /\ Between(req[r])
                                    /\ req[r].ifh.kind = "absent"
                                    /\ P \in LockedPaths(req[r])}) <= 1)
  /\ [][\A r \in Reqs, o \in Reqs, P \in FsPaths :
          (r # o /\ Between(req[o]) /\ HoldsTemp(req[o], P) /\ Attempts(r, P))
            => Rejected(r)]_vars

\* A DELETE of /a was refused while a PUT on /a holds its temporary lock.
C1_Witness ==
  /\ req["r1"].method = "PUT" /\ req["r1"].src = PathA
  /\ Between(req["r1"]) /\ HoldsTemp(req["r1"], PathA)
  /\ req["r2"].method = "DELETE" /\ req["r2"].src = PathA
  /\ req["r2"].pc = "done" /\ req["r2"].err = "ErrLocked"
  /\ served = 2

\* Paths P and Q overlap: they are equal or one is an ancestor of the other.
Overlap(P, Q) == P = Q \/ IsUnder(P, Q) \/ IsUnder(Q, P)

\* C2: serialization on overlapping paths.  Two mutating requests without
\* an If header whose affected paths are equal or one an ancestor of the
\* other are never both in their file system phase.
C2_Serialized ==
  \A r \in Reqs, o \in Reqs :
    (/\ r # o
     /\ req[r].pc = "fs" /\ req[r].method \in Mutating /\ req[r].ifh.kind = "absent"
     /\ req[o].pc = "fs" /\ req[o].method \in Mutating /\ req[o].ifh.kind = "absent")
      => \A P \in LockedPaths(req[r]), Q \in LockedPaths(req[o]) : ~Overlap(P, Q)

\* The paths request q is about to mutate: the target, the destination of
\* COPY, the source and the destination of MOVE.
MutatedPaths(q) == IF q.method = "COPY" THEN {q.dst}
                   ELSE IF q.method = "MOVE" THEN {q.src, q.dst}
                   ELSE {q.src}

\* C5: every file system mutation is bracketed by locks.  A step of a
\* mutating request without an If header that changes the file system or the
\* dead properties is taken between confirmLocks and release, while the
\* request holds a temporary lock rooted at every path it is about to mutate;
\* a request whose confirmLocks failed changes nothing.
C5_Bracketed ==
  [][\A r \in Reqs :
       (/\ req'[r] # req[r]
        /\ req[r].method \in Mutating
        /\ req[r].ifh.kind = "absent"
        /\ (fs' # fs \/ props' # props))
         => /\ req[r].pc = "fs"
            /\ \A P \in MutatedPaths(req[r]) : HoldsTemp(req[r], P)]_vars

\* C7: COPY confirms locks on the destination only, MOVE on both.  Without
\* an If header a COPY in its file system phase holds a temporary lock on
\* dst and none on src, and its Create on dst is not refused when no lock
\* covers dst, whatever locks cover src; a MOVE in its file system phase
\* holds temporary locks on src and on dst, and a MOVE whose Create on src or
\* on dst meets a lock of another client is refused with 423 and changes
\* nothing in the file system.
C7_CopyMoveLocks ==
  /\ [](\A r \in Reqs :
          (req[r].pc = "fs" /\ req[r].ifh.kind = "absent") =>
            /\ req[r].method = "COPY" =>
                 /\ req[r].srcToken = NoToken
                 /\ HoldsTemp(req[r], req[r].dst)
                 /\ \A l \in locks : l.root = req[r].src => l.token # req[r].dstToken
            /\ req[r].method = "MOVE" =>
                 /\ HoldsTemp(req[r], req[r].src)
                 /\ HoldsTemp(req[r], req[r].dst))
  /\ [][\A r \in Reqs, P \in FsPaths :
          /\ (Attempts(r, P) /\ req'[r].method = "COPY")
               => /\ P = req'[r].dst
                  /\ ~Conflicts(locks, TempLock(P)) => req'[r].err # "ErrLocked"
          /\ (Attempts(r, P) /\ req'[r].method = "MOVE" /\ Conflicts(locks, TempLock(P)))
               => Rejected(r)]_vars

\* A COPY from /a to /b is in its file system phase while /a is locked, and
\* a MOVE from /a was refused.
C7_Witness ==
  /\ req["r1"].method = "COPY" /\ req["r1"].src = PathA /\ req["r1"].dst = PathB
  /\ req["r1"].pc = "fs"
  /\ \E l \in locks : l.root = PathA /\ ~l.zeroDepth
  /\ req["r2"].method = "MOVE" /\ req["r2"].src = PathA
  /\ req["r2"].pc = "done" /\ req["r2"].status = StatusLocked

\* This step is taken by request r.
ActsIn(r) ==
  \/ served' # served /\ req'[r].n = served'
  \/ served' = served /\ req'[r] # req[r]

\* The locks of client A on /a: not zero-depth, of infinite duration, their
\* token returned by LOCK.
LocksOfA ==
  {l \in locks : /\ l.root = PathA /\ ~l.zeroDepth /\ l.duration = "infinite"
                 /\ l.token \notin Private}

\* This step is the start of a PUT on /a/x of request r while client A holds
\* its lock on /a.
LockedPut(r) ==
  /\ served' # served /\ req'[r].n = served'
  /\ req'[r].method = "PUT" /\ req'[r].src = PathAX
  /\ LocksOfA # {}

\* This step is handlePut's file system phase for a PUT on /a/x that passed
\* confirmation by citing a lock of client A.
ConfirmedPut(r) ==
  /\ req[r].pc = "fs" /\ req'[r].pc = "release"
  /\ req[r].method = "PUT" /\ req[r].src = PathAX
  /\ \E l \in LocksOfA : req[r].holds = {l.token}

\* C3 as stated: while client A holds a lock on /a that is not zero-depth and
\* of infinite duration (token T), a PUT /a/x without an If header returns
\* 423 and leaves file system and lock store unchanged, and a PUT /a/x whose
\* If header cites T passes confirmation and returns 201 (a failure of the
\* store itself, of the transfer of the body or of the ETag set aside).
C3_LockedPutCreates ==
  [][\A r \in Reqs :
       /\ LockedPut(r) =>
            /\ req'[r].ifh.kind = "absent" =>
                 /\ req'[r].pc = "done" /\ req'[r].status = StatusLocked
                 /\ fs' = fs /\ locks' = locks
            /\ \A l \in LocksOfA :
                 (req'[r].ifh = IfLists(<<List(NoTag, l.token)>>) /\ ~l.held)
                   => req'[r].pc = "fs" \/ req'[r].err = "ErrInfra"
       /\ ConfirmedPut(r) =>
            req'[r].status = 201 \/ req'[r].err \in {"ErrCopy", "ErrETag"}]_vars

\* C3: while client A holds a lock on /a that is not zero-depth and of
\* infinite duration (token T), a PUT /a/x without an If header returns 423
\* and leaves file system and lock store unchanged; a PUT /a/x whose If
\* header cites T, T not being held by another request, passes confirmation
\* and holds T unless the store fails (500), and it returns 201 when /a is a
\* collection, the body is written and the ETag computed, 404 without any
\* change when /a is not a collection.
C3_LockedPut ==
  [][\A r \in Reqs :
       /\ LockedPut(r) =>
            /\ req'[r].ifh.kind = "absent" =>
                 /\ req'[r].pc = "done" /\ req'[r].status = StatusLocked
                 /\ req'[r].err = "ErrLocked"
                 /\ fs' = fs /\ locks' = locks /\ props' = props
            /\ \A l \in LocksOfA :
                 (req'[r].ifh = IfLists(<<List(NoTag, l.token)>>) /\ ~l.held)
                   => \/ /\ req'[r].pc = "fs" /\ req'[r].holds = {l.token}
                         /\ \E h \in locks' : h.token = l.token /\ h.held
                      \/ /\ req'[r].pc = "done" /\ req'[r].status = 500
                         /\ locks' = locks
       /\ ConfirmedPut(r) =>
            /\ KindOf(fs, PathA) = "dir" =>
                 /\ req'[r].status \in {201, 405, 500}
                 /\ req'[r].status = 201 => KindOf(fs', PathAX) = "data"
            /\ KindOf(fs, PathA) # "dir" => req'[r].status = 404 /\ fs' = fs]_vars

\* The PUT on /a/x that cited the lock of client A on /a returned 201.
C3_Witness ==
  /\ req["r1"].method = "PUT" /\ req["r1"].src = PathAX
  /\ req["r1"].pc = "release" /\ req["r1"].status = 201
  /\ \E l \in LocksOfA : req["r1"].holds = {l.token} /\ l.held

\* The locks of the store other than those request q created or holds.
Others(ls, q) ==
  {IF l.token \in q.holds THEN [l EXCEPT !.held = FALSE] ELSE l :
     l \in {x \in ls : x.token \notin {q.srcToken, q.dstToken}}}

\* C4: no temporary lock outlives its request.  Once a mutating handler has
\* returned, on whatever exit path, the store holds no temporary lock the
\* request created and no hold its Confirm placed, and no step of the
\* request changes the other locks of the store: the request leaves the set
\* of locks as it found it.
C4_NoTemporaryLockOutlives ==
  /\ [](\A r \in Reqs :
          (req[r].pc = "done" /\ req[r].method \in Mutating) =>
            \A l \in locks :
              /\ l.token \notin {req[r].srcToken, req[r].dstToken}
              /\ (l.token \in req[r].holds /\ l.held) =>
                   \E o \in Reqs \ {r} : InFlight(req[o]) /\ l.token \in req[o].holds)
  /\ [][\A r \in Reqs :
          (ActsIn(r) /\ req'[r].method \in Mutating)
            => Others(locks', req'[r]) = Others(locks, req'[r])]_vars

\* A MOVE that held temporary locks on /a and /b has returned, and so has,
\* before it, a request that cited a lock.
C4_Witness ==
  /\ req["r1"].pc = "done" /\ req["r1"].method = "MOVE"
  /\ req["r1"].srcToken # NoToken /\ req["r1"].dstToken # NoToken
  /\ locks # {}
  /\ served = 3

C6_IfDisjunction ==
  /\ [][\A r \in Reqs :
          LET q == req'[r]
              i == Len(q.confirms)
              l == q.ifh.lists[i]
              tag == l.resourceTag
              eff == IF tag.present THEN stripPrefix(tag.path).path ELSE ArgSrc(q)
              cf == Confirm(locks, eff, ArgDst(q), l.tokens, FALSE)
          IN
          (/\ ActsIn(r)
           /\ q.ifh.kind = "lists"
           /\ i > 0
           /\ i = IF req[r].pc = "confirm" THEN req[r].idx
                  ELSE IF served' # served THEN 1 ELSE 0
           /\ tag.present => (tag.host = "same" /\ stripPrefix(tag.path).err = "nil"))
            => /\ cf.err = "ErrConfirmationFailed" =>
                    /\ locks' = locks
                    /\ q.holds = {}
                    /\ IF i < Len(q.ifh.lists)
                         THEN q.pc = "confirm" /\ q.idx = i + 1
                         ELSE /\ q.pc = "done" /\ q.status = 412 /\ q.err = "ErrLocked"
                              /\ \A x \in locks' : ~x.held
               /\ cf.err = "nil" =>
                    \/ q.pc = "fs" /\ locks' = cf.locks /\ q.holds = cf.tokens
                    \/ q.pc = "done" /\ q.status = 500 /\ locks' = locks]_vars
  /\ [](\A r \in Reqs :
          LET q == req[r] IN
          q.ifh.kind = "lists" =>
            /\ q.status # StatusLocked
            /\ \A j \in 1..Len(q.confirms) :
                 /\ j < Len(q.confirms) => q.confirms[j] \in {"failed", "skipped"}
                 /\ q.confirms[j] = "ok" => q.pc \in {"fs", "release", "done"}
            /\ q.status = 412 =>
                 /\ Len(q.confirms) = Len(q.ifh.lists)
                 /\ \A j \in 1..Len(q.confirms) : q.confirms[j] \in {"failed", "skipped"})

\* The first list of the If header was not confirmed, the second was.
C6_Witness ==
  /\ req["r1"].pc = "fs"
  /\ req["r1"].confirms = <<"failed", "ok">>
  /\ req["r1"].holds # {}

\* C8: the Overwrite header.  For COPY and for MOVE the overwrite flag
\* handed to the copy/move engine is false exactly when the header is "F"; a
\* request whose header is not "F" does not fail with 412.
C8_OverwriteFlag ==
  \A r \in Reqs :
    (/\ req[r].method \in {"COPY", "MOVE"}
     /\ req[r].pc = "release"
     /\ req[r].err # "errInvalidDepth")
      => /\ req[r].flag = (req[r].overwrite # "F")
         /\ req[r].overwrite # "F" => req[r].status # 412

\* C9: the rollback of LOCK.  After a LOCK request that failed the store
\* holds no lock with the token Create gave the request, and no step of a
\* LOCK request other than its successful return (which, for a refresh,
\* renews a lock) changes any other lock: a failed LOCK leaves the store as
\* it found it.
C9_LockRollback ==
  /\ [](\A r \in Reqs :
          (req[r].pc = "done" /\ req[r].method = "LOCK" /\ req[r].err # "nil")
            => \A l \in locks : l.token # req[r].token)
  /\ [][\A r \in Reqs :
          (/\ ActsIn(r) /\ req'[r].method = "LOCK"
           /\ ~(req'[r].pc = "done" /\ req'[r].err = "nil"))
            => {l \in locks' : l.token # req'[r].token}
                 = {l \in locks : l.token # req'[r].token}]_vars

\* A LOCK on /a/x obtained a lock and failed to create /a/x, while the store
\* holds another lock.
C9_Witness ==
  /\ req["r1"].method = "LOCK" /\ req["r1"].src = PathAX
  /\ req["r1"].pc = "done" /\ req["r1"].err = "ErrOpen"
  /\ req["r1"].token # NoToken
  /\ locks # {}

\* The handlers that begin with stripPrefix of the URL path.
UrlFirst == {"OPTIONS", "GET", "HEAD", "POST", "PUT", "DELETE", "MKCOL",
             "PROPPATCH", "PROPFIND"}

\* The first segment of a URL path: /Y of /Y/a/b.
FirstSegment(p) ==
  LET S == {i \in 2..Len(p) : p[i] = "/"} IN
  IF S = {} THEN p ELSE SubSeq(p, 1, (CHOOSE i \in S : \A j \in S : i <= j) - 1)

\* C11: the prefix round trip.  With a non-empty prefix X, stripPrefix of the
\* URL path p of a request succeeds exactly when p starts with X, and then
\* X followed by the logical path is p; a request to /Y/... with Y other
\* than X is answered 404 with the file system and the lock store untouched.
\* With an empty prefix the logical path is p.
C11_PrefixRoundTrip ==
  [][\A r \in Reqs :
       (served' # served /\ req'[r].n = served' /\ req'[r].method \in UrlFirst) =>
         LET q == req'[r]
             X == handler.Prefix
             ok == q.err # "errPrefixMismatch"
         IN
         /\ X # Empty =>
              /\ ok <=> HasPrefix(q.url, X)
              /\ ok => X \o q.src = q.url
              /\ FirstSegment(q.url) # X =>
                   /\ q.pc = "done" /\ q.status = 404 /\ ~ok
                   /\ fs' = fs /\ locks' = locks
         /\ X = Empty => ok /\ q.src = q.url]_vars

\* C20: the root of every lock in the store, temporary or created by LOCK,
\* is not empty and begins with "/".
C20_LockRootsNormalized ==
  \A l \in locks : l.root # Empty /\ l.root[1] = "/"

\* The handler of request q wrote a status line or a part of the body.
HandlerWrote(q) ==
  \/ \E i \in 1..Len(q.body) : q.body[i] \in {"xml", "file"}
  \/ q.wrote # <<>> /\ q.wrote[1] # q.status

\* C12: one status per request.  A handler that wrote a status line or a
\* part of the body returns status 0: no response has two status lines and
\* none has the status text of the dispatcher after a body of the handler.
C12_OneStatus ==
  \A r \in Reqs :
    LET q == req[r] IN
    q.pc = "done" =>
      /\ HandlerWrote(q) => q.status = 0
      /\ Len(q.wrote) <= 1
      /\ \A i, j \in 1..Len(q.body) :
           (i < j /\ q.body[i] \in {"xml", "file"}) => q.body[j] # "text"

OneToken(h) ==
  /\ h.kind = "lists" /\ Len(h.lists) = 1
  /\ Cardinality(h.lists[1].tokens) = 1 /\ h.lists[1].tokens # {NoToken}

\* C14: LOCK refresh.  A LOCK with an empty body changes no file and no
\* property and neither adds nor removes a lock.  Unless its If header has
\* exactly one list with exactly one condition that carries a token, it is
\* answered 400 with the store unchanged; with such a header and a token
\* that names no lock it is answered 412, and when it succeeds the store
\* differs only in the duration of the lock the token names.
C14_LockRefresh ==
  [][\A r \in Reqs :
       (/\ served' # served /\ req'[r].n = served'
        /\ req'[r].method = "LOCK" /\ req'[r].lockInfo = "empty") =>
         LET a == req'[r]
             t == CHOOSE x \in a.ifh.lists[1].tokens : TRUE
         IN
         /\ a.pc = "done"
         /\ fs' = fs /\ props' = props
         /\ {l.token : l \in locks'} = {l.token : l \in locks}
         /\ ~OneToken(a.ifh) => a.status = 400 /\ locks' = locks
         /\ a.err = "errInvalidTimeout" => a.status = 400 /\ locks' = locks
         /\ (OneToken(a.ifh) /\ a.err # "errInvalidTimeout") =>
              /\ ~HasToken(locks, t) => a.status = 412 /\ locks' = locks
              /\ a.status # 0 => locks' = locks
              /\ a.status = 0 =>
                   /\ HasToken(locks, t)
                   /\ locks' = {IF l.token = t THEN [l EXCEPT !.duration = a.duration]
                                 ELSE l : l \in locks}]_vars

\* A refresh with Timeout: Second-1 of a lock of infinite duration succeeded.
C14_Witness ==
  /\ req["r1"].method = "LOCK" /\ req["r1"].lockInfo = "empty"
  /\ req["r1"].pc = "done" /\ req["r1"].status = 0 /\ req["r1"].err = "nil"
  /\ OneToken(req["r1"].ifh)
  /\ req["r1"].duration = "finite"
  /\ \E l \in locks : l.token \in req["r1"].ifh.lists[1].tokens /\ l.duration = "finite"

\* The temporary lock with token t on root.
TempLockOf(t, root) ==
  [token |-> t, root |-> root, zeroDepth |-> TRUE, duration |-> "infinite", held |-> FALSE]

\* C15: two-resource acquisition is all or nothing.  The step of a request
\* without an If header that creates its lock on src adds exactly that lock;
\* when the lock on dst then fails, that step leaves the store unchanged, the
\* next step of the request removes exactly the lock on src and returns the
\* failure, and the request never reaches its file system phase or a
\* release: the failed confirmLocks leaves the store as it found it.
C15_AllOrNothing ==
  /\ [](\A r \in Reqs :
          req[r].pc \in {"lockDst", "unlockSrc"} =>
            TempLockOf(req[r].srcToken, req[r].src) \in locks)
  /\ [][\A r \in Reqs :
          LET q == req[r]
              a == req'[r]
          IN
          /\ (served' # served /\ a.n = served' /\ a.pc = "lockDst") =>
               /\ ~HasToken(locks, a.srcToken)
               /\ locks' = locks \cup {TempLockOf(a.srcToken, a.src)}
          /\ (q.pc = "lockDst" /\ a # q /\ a.dstToken = NoToken) =>
               /\ locks' = locks
               /\ a.pc = "unlockSrc" /\ a.err # "nil" /\ a.status # 0
          /\ (q.pc = "unlockSrc" /\ a # q) =>
               /\ locks' = locks \ {TempLockOf(q.srcToken, q.src)}
               /\ a.pc = "done" /\ a.err = q.err /\ a.status = q.status
               /\ fs' = fs /\ props' = props]_vars

\* A MOVE created its lock on the source, was refused the lock on the
\* destination that another request holds, and returned 423.
C15_Witness ==
  /\ req["r1"].method = "MOVE" /\ req["r1"].pc = "done"
  /\ req["r1"].srcToken # NoToken /\ req["r1"].dstToken = NoToken
  /\ req["r1"].status = StatusLocked
  /\ \E l \in locks : l.root = req["r1"].dst
  /\ ~HasToken(locks, req["r1"].srcToken)

\* C16: the order of acquisition and release.  Without an If header the
\* lock on dst of a request that locks both is created while its lock on src
\* is in the store; the release unlocks dst first and src second, each step
\* removing exactly that lock, and the request returns when both are gone.
C16_AcquireReleaseOrder ==
  [][\A r \in Reqs :
       LET q == req[r]
           a == req'[r]
       IN
       /\ (q.pc = "lockDst" /\ a.dstToken # NoToken) =>
            /\ TempLockOf(q.srcToken, q.src) \in locks
            /\ locks' = locks \cup {TempLockOf(a.dstToken, q.dst)}
            /\ a.dstToken # q.srcToken
       /\ (q.pc = "release" /\ a # q /\ q.ifh.kind = "absent"
             /\ q.srcToken # NoToken /\ q.dstToken # NoToken) =>
            /\ TempLockOf(q.dstToken, q.dst) \in locks
            /\ locks' = locks \ {TempLockOf(q.dstToken, q.dst)}
            /\ TempLockOf(q.srcToken, q.src) \in locks'
            /\ a.pc = "release2"
       /\ (q.pc = "release2" /\ a # q) =>
            /\ TempLockOf(q.srcToken, q.src) \in locks
            /\ locks' = locks \ {TempLockOf(q.srcToken, q.src)}
            /\ ~HasToken(locks', q.dstToken)
            /\ a.pc = "done"]_vars

\* A MOVE has unlocked its destination and still holds the lock on its
\* source.
C16_Witness ==
  /\ req["r1"].method = "MOVE" /\ req["r1"].pc = "release2"
  /\ HasToken(locks, req["r1"].srcToken)
  /\ ~HasToken(locks, req["r1"].dstToken)

\* This step is a call of Handler.lock by request r that failed: the first
\* lock of a request without an If header, or its lock on dst.
LockFailed(r) ==
  \/ /\ served' # served /\ req'[r].n = served'
     /\ req'[r].method \in Mutating /\ req'[r].ifh.kind = "absent"
     /\ LockedPaths(req'[r]) # {}
     /\ req'[r].pc = "done"
     /\ req'[r].srcToken = NoToken /\ req'[r].dstToken = NoToken
  \/ /\ req[r].pc = "lockDst" /\ req'[r] # req[r]
     /\ req'[r].dstToken = NoToken

\* The path of the lock that this step of request r asked for.
LockAsked(r) ==
  IF req[r].pc = "lockDst" THEN req[r].dst
  ELSE IF ArgSrc(req'[r]) # Empty THEN ArgSrc(req'[r]) ELSE ArgDst(req'[r])

\* C17, as claimed: whenever confirmLocks without an If header fails to
\* create a temporary lock, it returns 423 with ErrLocked.
C17_FailureIsLocked ==
  [][\A r \in Reqs :
       LockFailed(r) => req'[r].status = StatusLocked /\ req'[r].err = "ErrLocked"]_vars

\* C17, amended: when confirmLocks without an If header fails to create a
\* temporary lock because the path conflicts with a lock of the store, it
\* returns 423 with ErrLocked; when Create fails for another reason, it
\* returns 500 with the error of Create.
C17_FailureStatus ==
  [][\A r \in Reqs :
       LockFailed(r) =>
         IF Conflicts(locks, TempLock(LockAsked(r)))
           THEN req'[r].status = StatusLocked /\ req'[r].err = "ErrLocked"
           ELSE req'[r].status = 500 /\ req'[r].err = "ErrInfra"]_vars

\* One request was refused a temporary lock with 423 and another failed to
\* get one with 500.
C17_Witness ==
  /\ req["r1"].pc = "done" /\ req["r1"].method \in Mutating
  /\ req["r1"].status = StatusLocked /\ req["r1"].err = "ErrLocked"
  /\ req["r2"].pc = "done" /\ req["r2"].method \in Mutating
  /\ req["r2"].status = 500 /\ req["r2"].err = "ErrInfra"

\* This step of request r is confirmLocks examining list i of the If
\* header: at the start of the request, once the handler has reached
\* confirmLocks, or in a later iteration of the loop.
Examines(r, i) ==
  /\ req'[r].ifh.kind = "lists"
  /\ req'[r].method \in Mutating
  /\ \/ /\ served' # served /\ req'[r].n = served' /\ i = 1
        /\ stripPrefix(req'[r].url).err = "nil"
        /\ req'[r].method \in {"COPY", "MOVE"} => req'[r].dst # Empty
     \/ /\ served' = served /\ req[r].pc = "confirm" /\ req'[r] # req[r]
        /\ i = req[r].idx

\* The calls of Confirm that request r made before this step.
CallsBefore(r) == IF served' # served THEN <<>> ELSE req[r].lsrcs

CopiedWhole(f, g, src, dst) ==
  \A x \in FsPaths :
    (x = dst \/ IsUnder(x, dst)) => g[x] = KindOf(f, Rebase(x, dst, src))

\* C19: the constraints on Depth.  A COPY with a Depth header other than 0
\* and infinity, a MOVE with a Depth header other than infinity and a LOCK
\* create with a Depth header other than 0 and infinity are answered 400 and
\* change neither the file system nor the properties; LOCK creates no lock,
\* and once COPY or MOVE has returned the store holds none of its temporary
\* locks and none of its holds, no step of it having touched another lock.
\* Without a Depth header COPY and MOVE of a collection bring the whole tree
\* to the destination and LOCK creates a lock that is not zero-depth, as
\* with Depth: infinity.
C19_DepthConstraints ==
  /\ [][\A r \in Reqs :
          LET q == req[r]
              a == req'[r]
          IN
          /\ (q.pc = "fs" /\ a # q /\ q.method = "COPY") =>
               /\ a.depth \notin {"", "0", "infinity"} =>
                    /\ a.status = 400 /\ a.err = "errInvalidDepth" /\ a.pc = "release"
                    /\ fs' = fs /\ props' = props /\ locks' = locks
               /\ (a.depth \in {"", "infinity"} /\ a.err = "nil") =>
                    CopiedWhole(fs, fs', q.src, q.dst)
          /\ (q.pc = "fs" /\ a # q /\ q.method = "MOVE") =>
               /\ a.depth \notin {"", "infinity"} =>
                    /\ a.status = 400 /\ a.err = "errInvalidDepth" /\ a.pc = "release"
                    /\ fs' = fs /\ props' = props /\ locks' = locks
               /\ (a.depth \in {"", "infinity"} /\ a.err = "nil") =>
                    CopiedWhole(fs, fs', q.src, q.dst)
          /\ (served' # served /\ a.n = served' /\ a.method = "LOCK"
                /\ a.lockInfo = "lockinfo" /\ a.err # "errInvalidTimeout") =>
               /\ a.depth \notin {"", "0", "infinity"} =>
                    /\ a.pc = "done" /\ a.status = 400 /\ a.err = "errInvalidDepth"
                    /\ fs' = fs /\ props' = props /\ locks' = locks
               /\ (a.depth \in {"", "infinity"} /\ a.pc = "lockFs") =>
                    ~LockOf(locks', a.token).zeroDepth
          /\ (ActsIn(r) /\ a.method \in {"COPY", "MOVE"}) =>
               Others(locks', a) = Others(locks, a)]_vars
  /\ [](\A r \in Reqs :
          (/\ req[r].pc = "done" /\ req[r].method \in {"COPY", "MOVE"}
           /\ req[r].err = "errInvalidDepth") =>
            \A l \in locks : /\ l.token \notin {req[r].srcToken, req[r].dstToken}
                             /\ ~(l.token \in req[r].holds /\ l.held))

\* A MOVE with Depth: 0 that had locked its source and its destination was
\* answered 400, /a is still where it was, and the store is empty.
C19_Witness ==
  /\ req["r1"].method = "MOVE" /\ req["r1"].pc = "done"
  /\ req["r1"].depth = "0" /\ req["r1"].status = 400
  /\ req["r1"].srcToken # NoToken /\ req["r1"].dstToken # NoToken
  /\ fs[PathA] = "dir" /\ fs[PathB] = "absent"
  /\ locks = {}

\* C21: lock acquisition never blocks.  The step in which Create refuses a
\* temporary lock ends confirmLocks with the failure and leaves the store as
\* it was; every request whose handler is running has a step it can take,
\* whatever the other requests do, so no request waits for another; every
\* request that has started returns; and when no handler is running the
\* store holds no temporary lock.
C21_NeverBlocks ==
  /\ [][\A r \in Reqs, P \in FsPaths :
          (Attempts(r, P) /\ req'[r].err # "nil") =>
            /\ req'[r].pc \in {"done", "unlockSrc"}
            /\ locks' = locks]_vars
  /\ [](\A r \in Reqs : InFlight(req[r]) => ENABLED Runs(r))
  /\ \A r \in Reqs : InFlight(req[r]) ~> (req[r].pc = "done")
  /\ []((\A r \in Reqs : ~InFlight(req[r])) => locks = {})

\* The crossed MOVEs, /a to /b and /b to /a, were both answered 423, and the
\* store is empty.
C21_Witness ==
  /\ req["r1"].method = "MOVE" /\ req["r1"].src = PathA /\ req["r1"].dst = PathB
  /\ req["r2"].method = "MOVE" /\ req["r2"].src = PathB /\ req["r2"].dst = PathA
  /\ req["r1"].pc = "done" /\ req["r1"].status = StatusLocked
  /\ req["r2"].pc = "done" /\ req["r2"].status = StatusLocked
  /\ locks = {}

ReadOnly == {"OPTIONS", "GET", "HEAD", "POST", "PROPFIND"}

\* The results <<status, err>> that a reading method can return for request
\* q on file system f: they depend on the URL, the headers and f alone.
ReadOutcomes(f, q) ==
  LET sp == stripPrefix(q.url)
      kind == KindOf(f, slashClean(sp.path))
  IN
  IF sp.err # "nil" THEN {<<sp.status, sp.err>>}
  ELSE IF q.method = "OPTIONS" THEN {<<0, "nil">>}
  ELSE IF q.method = "PROPFIND"
    THEN IF StatErr(f, sp.path) # "nil" THEN {<<404, "ErrNotExist">>}
         ELSE IF q.depth # "" /\ parseDepth(q.depth) = invalidDepth
           THEN {<<400, "errInvalidDepth">>}
         ELSE {<<400, "errInvalidPropfind">>, <<500, "ErrWalk">>,
               <<500, "ErrClose">>, <<0, "nil">>}
  ELSE IF kind = "absent" THEN {<<404, "ErrNotExist">>}
  ELSE IF kind = "dir" THEN {<<405, "nil">>}
  ELSE {<<500, "ErrETag">>, <<0, "nil">>}

\* C22: the reading methods leave the locks alone.  A request of OPTIONS,
\* GET, HEAD, POST or PROPFIND returns in the step that starts it, changes
\* neither the lock store (no lock added, removed, refreshed or held) nor
\* the file system nor the properties, and its result is one that the URL,
\* the headers and the file system allow, whatever locks the store holds:
\* never 423 or 412, and a file that exists is served even while a lock of
\* another client or of a request in flight covers it.
C22_ReadOnlyFrame ==
  [][\A r \in Reqs :
       (served' # served /\ req'[r].n = served' /\ req'[r].method \in ReadOnly) =>
         LET a == req'[r] IN
         /\ locks' = locks /\ fs' = fs /\ props' = props
         /\ a.pc = "done"
         /\ a.srcToken = NoToken /\ a.dstToken = NoToken /\ a.holds = {}
         /\ <<a.status, a.err>> \in ReadOutcomes(fs, a)
         /\ a.status \notin {StatusLocked, 412}
         /\ (a.method = "OPTIONS" /\ a.err = "nil") =>
              a.allow = (LET kind == KindOf(fs, slashClean(a.src)) IN
                         IF kind = "absent" THEN "none"
                         ELSE IF kind = "dir" THEN "dir" ELSE "file")
         /\ (a.method = "GET" /\ a.status = 0) =>
              a.wrote = <<200>> /\ a.body = <<"file">>]_vars

\* GET /a was answered with the content of /a while a lock created by LOCK
\* covers /a and a PUT on /a/x is in its file system phase under its
\* temporary lock.
C22_Witness ==
  /\ req["r1"].method = "GET" /\ req["r1"].src = PathA
  /\ req["r1"].pc = "done" /\ req["r1"].status = 0 /\ req["r1"].body = <<"file">>
  /\ req["r2"].method = "PUT" /\ req["r2"].src = PathAX /\ req["r2"].pc = "fs"
  /\ req["r1"].n > req["r2"].n
  /\ \E l \in locks : l.root = PathAX /\ l.token = req["r2"].srcToken
  /\ \E l \in locks : l.root = PathA /\ l.token \notin Private

====
